---------------------------- MODULE Spec2Model ----------------------------
(***************************************************************************)
(* A model of the knowledge-base extraction pipeline:                      *)
(*   llm/kb_generator.py    MultiCallKBGenerator (generate and its steps)  *)
(*   llm/client.py          ClaudeClient.parse_json_response and repair    *)
(*   processors/image_filter.py   ImageFilter.filter_images                *)
(*   models/schemas.py      the pydantic Section model                     *)
(*                                                                         *)
(* Python values are modelled as tagged records so that None, str, int,    *)
(* list and dict can meet in one field, as they do in the JSON an LLM      *)
(* returns.  A Python str is a sequence of tokens (characters or words).   *)
(* A raised exception is the value Raise(e) returned in place of a result. *)
(***************************************************************************)
EXTENDS Integers, Sequences, FiniteSets, TLC

VARIABLES
    \* ---- MultiCallKBGenerator.generate ----
    pc,                 \* position of generate: "metadata", "grouping", "extract", "done", "failed"
    flat_sections,      \* the outline returned by parse_sections_from_html
    metadata_result,    \* result of _extract_metadata_only
    llm_group_count,    \* len(grouped) of the grouping reply, -1 before the call
    grouped_sections,   \* result of _semantic_grouping (after the main_content default)
    section_batches,    \* the batches of flattened sections
    batch_i,            \* number of batches already processed
    extracted_sections, \* dict id -> Section, in insertion order
    batch_log,          \* per processed batch: what _extract_sections_batch did
    llm_calls,          \* the LLM calls issued so far, in order
    kb,                 \* the KnowledgeBase returned (None until done)
    raised_in,          \* where the exception that ended generate was raised
    \* ---- ClaudeClient.parse_json_response ----
    response,           \* the raw response text
    json_str,           \* the JSON text parse_json_response took from it (None: none)
    json_out,           \* outcome of parse_json_response
    \* ---- ImageFilter.filter_images ----
    images,             \* the input list
    passed,             \* list of FilteredImage
    skipped,            \* list of SkippedImage
    stats,              \* ImageFilter.stats
    \* ---- SectionParser.parse ----
    seen_ids,           \* the set of ids handed out in this parse call
    parsed_sections,    \* the list of ParsedSection built so far
    \* ---- SectionParser._parse_table ----
    table,              \* the rows of the <table>, each a list of cells (None: no call)
    table_data,         \* the dict _parse_table returned (None before the call)
    \* ---- ImageClassifier.classify_all ----
    image_batches,      \* the input batches of FilteredImage
    batches_done,       \* passes of the loop over the batches that have ended
    all_included,       \* list of ImageDescription
    all_excluded,       \* list of ExcludedImage
    classify_log,       \* per ended pass: the batch, what the API call gave, what classify_batch gave
    classify_out,       \* what classify_all returned (None before)
    \* ---- HTMLCleaner.clean ----
    html_doc,           \* the parsed input document, its body element (None: no call)
    cleaned,            \* the cleaned body and the stats of the first call
    recleaned,          \* the cleaned body and the stats of the call on the first result
    \* ---- ClaudeClient.call_text_only / call_with_images ----
    call_kind,          \* which of the two functions was called ("" when none)
    max_retries,        \* self.max_retries
    attempt,            \* the loop variable: passes of the retry loop begun so far
    api_log,            \* what the API gave to each request, in order
    call_result,        \* what the call returned or raised (None while it runs)
    \* ---- process_all_folders ----
    folders,            \* the names of the folders discover_folders returned, in order
    skip_processed,     \* the skip_processed argument
    report_data,        \* report.data["folders"]: dict folder name -> entry
    folder_i,           \* passes of the loop over the folders that have ended
    run_attempt,        \* the loop variable of process_with_rate_limit_retry
    run_log,            \* per ended pass: the folder and what extractor.process gave
    \* ---- ImageFilter.batch_images ----
    batch_input,        \* the images argument
    batch_size_arg,     \* the batch_size argument (None: left out)
    batch_result,       \* the list of batches returned (None before the call)
    \* ---- MultiCallKBGenerator._reconstruct_hierarchy ----
    \* ---- ClaudeClient._wait_for_rate_limit and the calls of one client ----
    clock,              \* time.time(), in seconds
    last_call_time,     \* self.last_call_time
    first_request,      \* when the running call sent its first request (None: not yet)
    client_calls,       \* per ended call: first request, end, whether it raised
    \* ---- ClaudeClient._truncate_to_valid_json ----
    truncate_in,        \* the json_str argument (None: no call)
    truncate_out,       \* what the call returned (None before the call and for None)
    rebuilt_sections    \* what _reconstruct_hierarchy returned or raised (None before)

genVars == <<pc, flat_sections, metadata_result, llm_group_count, grouped_sections, section_batches,
             batch_i, extracted_sections, batch_log, llm_calls, kb, raised_in>>
jsonVars == <<response, json_str, json_out>>
filterVars == <<images, passed, skipped, stats>>
parseVars == <<seen_ids, parsed_sections>>
tableVars == <<table, table_data>>
classifyVars == <<image_batches, batches_done, all_included, all_excluded, classify_log,
                  classify_out>>
cleanVars == <<html_doc, cleaned, recleaned>>
callVars == <<call_kind, max_retries, attempt, api_log, call_result>>
runVars == <<folders, skip_processed, report_data, folder_i, run_attempt, run_log>>
chunkVars == <<batch_input, batch_size_arg, batch_result>>
rebuildVars == <<rebuilt_sections>>
gateVars == <<clock, last_call_time, first_request, client_calls>>
truncateVars == <<truncate_in, truncate_out>>
moreVars == <<rebuildVars, gateVars, truncateVars>>
laterVars == <<parseVars, tableVars, classifyVars, cleanVars, callVars, runVars, chunkVars,
               moreVars>>
vars == <<genVars, jsonVars, filterVars, laterVars>>

-----------------------------------------------------------------------------
(* Bounds of the model *)
MaxGroups == 3
MaxChildren == 3
MaxOutline == 2
MaxSections == 9
MaxVariantSections == 4

-----------------------------------------------------------------------------
(* Python values *)
None == [t |-> "None"]
S(s) == [t |-> "str", v |-> s]
W(w) == [t |-> "str", v |-> <<w>>]
N(i) == [t |-> "int", v |-> i]
L(l) == [t |-> "list", v |-> l]
D(f) == [t |-> "dict", v |-> f]
B(b) == [t |-> "bool", v |-> b]
Raise(e) == [t |-> "raise", err |-> e]
EmptyDict == [k \in {} |-> None]

IsRaise(x) == x.t = "raise"

\* dict.get(key, default) on the dict's key -> value function
Get(d, k, default) == IF k \in DOMAIN d THEN d[k] ELSE default

\* bool(x)
Truthy(x) ==
    CASE x.t = "None" -> FALSE
      [] x.t = "str" -> x.v # <<>>
      [] x.t = "int" -> x.v # 0
      [] x.t = "list" -> x.v # <<>>
      [] x.t = "dict" -> DOMAIN x.v # {}
      [] x.t = "bool" -> x.v
      [] OTHER -> TRUE

\* the keys of a dict, as str values, one after the other
RECURSIVE KeysSeq(_)
KeysSeq(ks) ==
    IF ks = {} THEN <<>>
    ELSE LET k == CHOOSE x \in ks : TRUE IN <<S(<<k>>)>> \o KeysSeq(ks \ {k})

\* for item in x: the items, or the TypeError of a value that is not iterable
\* (as a list value); a str yields its characters, a dict its keys
Iter(x) ==
    CASE x.t = "list" -> x
      [] x.t = "str" -> L([i \in 1..Len(x.v) |-> S(<<x.v[i]>>)])
      [] x.t = "dict" -> L(KeysSeq(DOMAIN x.v))
      [] OTHER -> Raise(<<"TypeError">>)

AnyRaise(seq) == \E i \in DOMAIN seq : IsRaise(seq[i])
FirstRaise(seq) ==
    seq[CHOOSE i \in DOMAIN seq : IsRaise(seq[i]) /\ \A j \in 1..(i-1) : ~IsRaise(seq[j])]

\* str.lower(), token by token
LowerTok(c) ==
    CASE c = "A" -> "a"
      [] c = "B" -> "b"
      [] c = "C" -> "c"
      [] c = "T" -> "t"
      [] c = "Unknown" -> "unknown"
      [] OTHER -> c
Lower(s) == [i \in 1..Len(s) |-> LowerTok(s[i])]

\* the tokens matched by [a-z0-9]
SlugTokens == {"a", "b", "c", "t", "g", "x", "unknown", "section", "0", "1", "2", "3", "4", "5"}


-----------------------------------------------------------------------------
(* models/schemas.py: the pydantic models.  A constructor validates the   *)
(* field types and raises ValidationError when one does not fit.           *)

IsStrList(x) == x.t = "list" /\ \A i \in DOMAIN x.v : x.v[i].t = "str"
IsListOf(x, tag) == x.t = "list" /\ \A i \in DOMAIN x.v : x.v[i].t = tag

SectionImage(image_id, local_path, category, description) ==
    IF image_id.t = "str" /\ local_path.t = "str" /\ category.t = "str"
       /\ description.t = "str"
    THEN [t |-> "SectionImage", image_id |-> image_id, local_path |-> local_path,
          category |-> category, description |-> description]
    ELSE Raise(<<"ValidationError">>)

\* the validation of a Section whose list fields were declared Optional
SectionFieldsOptionalLists(id, title, level, summary, content, key_points, imgs, subsections, data) ==
    /\ id.t = "str"
    /\ title.t = "str"
    /\ level.t = "int"
    /\ summary.t = "str"

SectionFieldsValid(id, title, level, summary, content, key_points, imgs, subsections, data) ==
    /\ id.t = "str"
    /\ title.t = "str"
    /\ level.t = "int"
    /\ summary.t = "str"
    /\ content.t \in {"None", "str"}
    /\ IsStrList(key_points)
    /\ IsListOf(imgs, "SectionImage")
    /\ IsListOf(subsections, "Section")
    /\ data.t \in {"None", "dict"}

Section(id, title, level, summary, content, key_points, imgs, subsections, data) ==
    IF SectionFieldsValid(id, title, level, summary, content, key_points, imgs, subsections, data)
    THEN [t |-> "Section", id |-> id, title |-> title, level |-> level,
          summary |-> summary, content |-> content, key_points |-> key_points,
          images |-> imgs, subsections |-> subsections, data |-> data]
    ELSE Raise(<<"ValidationError">>)

KBMetadata(product, target_audience, total_sections) ==
    IF product.t \in {"None", "str"} /\ target_audience.t \in {"None", "str"}
       /\ total_sections.t = "int"
    THEN [t |-> "KBMetadata", product |-> product, target_audience |-> target_audience,
          total_sections |-> total_sections]
    ELSE Raise(<<"ValidationError">>)

KnowledgeBase(metadata, document_summary, key_value_proposition, sections) ==
    IF metadata.t = "KBMetadata" /\ document_summary.t = "str"
       /\ key_value_proposition.t \in {"None", "str"} /\ IsListOf(sections, "Section")
    THEN [t |-> "KnowledgeBase", metadata |-> metadata,
          document_summary |-> document_summary,
          key_value_proposition |-> key_value_proposition, sections |-> sections]
    ELSE Raise(<<"ValidationError">>)

-----------------------------------------------------------------------------
(* llm/kb_generator.py: MultiCallKBGenerator *)

\* _parse_section: one image dict of section_dict["images"]
ParseSectionImage(img_dict) ==
    IF img_dict.t # "dict" THEN Raise(<<"AttributeError">>)
    ELSE SectionImage(Get(img_dict.v, "image_id", S(<<>>)),
                      Get(img_dict.v, "local_path", S(<<>>)),
                      Get(img_dict.v, "category", S(<<>>)),
                      Get(img_dict.v, "description", S(<<>>)))

RECURSIVE _parse_section(_)
_parse_section(section_dict) ==
    IF section_dict.t # "dict" THEN Raise(<<"AttributeError">>)
    ELSE
    LET d == section_dict.v
        img_items == Iter(Get(d, "images", L(<<>>)))
        sub_items == Iter(Get(d, "subsections", L(<<>>)))
    IN  IF IsRaise(img_items) THEN img_items
        ELSE
        LET imgs == [i \in 1..Len(img_items.v) |-> ParseSectionImage(img_items.v[i])]
        IN  IF AnyRaise(imgs) THEN FirstRaise(imgs)
            ELSE IF IsRaise(sub_items) THEN sub_items
            ELSE
            LET subsections == [i \in 1..Len(sub_items.v) |-> _parse_section(sub_items.v[i])]
            IN  IF AnyRaise(subsections) THEN FirstRaise(subsections)
                ELSE Section(Get(d, "id", S(<<>>)),
                             Get(d, "title", S(<<>>)),
                             Get(d, "level", N(1)),
                             Get(d, "summary", S(<<>>)),
                             Get(d, "content", None),
                             Get(d, "key_points", L(<<>>)),
                             L(imgs),
                             L(subsections),
                             Get(d, "data", None))

\* _extract_sections_batch, from the reply of call_text_only + parse_json_response
\* on: the raised exception, or the list of Section objects
_extract_sections_batch(reply) ==
    IF IsRaise(reply) THEN reply
    ELSE IF reply.t # "dict" THEN Raise(<<"AttributeError">>)
    ELSE
    LET sections_data == Iter(Get(reply.v, "sections", L(<<>>)))
    IN  IF IsRaise(sections_data) THEN sections_data
        ELSE
        LET sections == [i \in 1..Len(sections_data.v) |-> _parse_section(sections_data.v[i])]
        IN  IF AnyRaise(sections) THEN FirstRaise(sections) ELSE L(sections)

\* re.sub(r'[^a-z0-9]+', '_', s): every maximal run of other tokens becomes one "_"
RECURSIVE SubNonSlug(_, _)
SubNonSlug(s, in_run) ==
    IF s = <<>> THEN <<>>
    ELSE IF Head(s) \in SlugTokens THEN <<Head(s)>> \o SubNonSlug(Tail(s), FALSE)
    ELSE IF in_run THEN SubNonSlug(Tail(s), TRUE)
    ELSE <<"_">> \o SubNonSlug(Tail(s), TRUE)

\* str.strip('_')
RECURSIVE LStrip(_, _)
LStrip(s, c) == IF s # <<>> /\ Head(s) = c THEN LStrip(Tail(s), c) ELSE s
RECURSIVE RStrip(_, _)
RStrip(s, c) ==
    IF s # <<>> /\ s[Len(s)] = c THEN RStrip(SubSeq(s, 1, Len(s) - 1), c) ELSE s
Strip(s, c) == RStrip(LStrip(s, c), c)

_generate_id(title) ==
    IF title.t # "str" THEN Raise(<<"AttributeError">>)
    ELSE LET id_str == Strip(SubNonSlug(Lower(title.v), FALSE), "_")
         IN  IF id_str = <<>> THEN S(<<"section">>) ELSE S(id_str)


\* _semantic_grouping, lines 323-330: one child of a parent group
GroupChild(child, section_level) ==
    IF child.t # "dict" THEN Raise(<<"AttributeError">>)
    ELSE
    LET gen == _generate_id(Get(child.v, "title", W("unknown")))
    IN  IF IsRaise(gen) THEN gen
        ELSE IF section_level.t # "int" THEN Raise(<<"TypeError">>)
        ELSE D([id |-> Get(child.v, "id", gen),
                title |-> Get(child.v, "title", W("Unknown")),
                level |-> Get(child.v, "level", N(section_level.v + 1)),
                category |-> Get(child.v, "category", None),
                section_type |-> Get(child.v, "section_type", None)])

\* _semantic_grouping, lines 310-333: one group of the LLM's reply
ProcessGroup(group) ==
    IF group.t # "dict" THEN Raise(<<"AttributeError">>)
    ELSE
    LET g == group.v
        gen == _generate_id(Get(g, "title", W("unknown")))
        section == [id |-> Get(g, "id", gen),
                    title |-> Get(g, "title", W("Unknown")),
                    level |-> Get(g, "level", N(2)),
                    type |-> Get(g, "type", W("standalone")),
                    section_type |-> Get(g, "section_type", None),
                    category |-> Get(g, "category", None)]
    IN  IF IsRaise(gen) THEN gen
        ELSE IF Get(g, "type", None) = W("parent") /\ Truthy(Get(g, "children", None))
        THEN LET items == Iter(Get(g, "children", L(<<>>)))
             IN  IF IsRaise(items) THEN items
                 ELSE LET children == [i \in 1..Len(items.v) |->
                                          GroupChild(items.v[i], section.level)]
                      IN  IF AnyRaise(children) THEN FirstRaise(children)
                          ELSE D(("children" :> L(children)) @@ section)
        ELSE D(section)

\* _semantic_grouping, line 306: the fallback group of one outline entry
\* {"id": s.get('id'), "title": s.get('title'), "type": "standalone", **s}
FallbackGroup(s) ==
    D(s.v @@ [id |-> Get(s.v, "id", None),
              title |-> Get(s.v, "title", None),
              type |-> W("standalone")])

\* _semantic_grouping, from the reply of the LLM call + parse_json_response on:
\* the raised exception, or the list of groups
_semantic_grouping(flat, reply) ==
    IF IsRaise(reply) THEN reply
    ELSE IF reply.t # "dict" THEN Raise(<<"AttributeError">>)
    ELSE
    LET grouped == Get(reply.v, "grouped_sections", L(<<>>))
    IN  \* line 300 evaluates len(grouped) as the default of a .get
        IF grouped.t \in {"None", "int"} THEN Raise(<<"TypeError">>)
        ELSE IF ~Truthy(grouped)
        THEN L([i \in 1..Len(flat) |-> FallbackGroup(flat[i])])
        ELSE LET items == Iter(grouped)
                 processed_sections == [i \in 1..Len(items.v) |-> ProcessGroup(items.v[i])]
             IN  IF AnyRaise(processed_sections) THEN FirstRaise(processed_sections)
                 ELSE L(processed_sections)

\* a flattening that leaves the children out
FlattenParentOnly(section) ==
    L(<<D([k \in DOMAIN section.v \ {"children"} |-> section.v[k]])>>)

\* _flatten_grouped_sections, lines 396-407: one group and its children
FlattenGroup(section) ==
    LET section_copy == D([k \in DOMAIN section.v \ {"children"} |-> section.v[k]])
    IN  IF Get(section.v, "type", None) = W("parent")
        THEN LET items == Iter(Get(section.v, "children", L(<<>>)))
                 level == Get(section.v, "level", N(1))
             IN  IF IsRaise(items) THEN items
                 ELSE IF items.v = <<>> THEN L(<<section_copy>>)
                 ELSE IF \E i \in 1..Len(items.v) : items.v[i].t # "dict"
                 THEN Raise(<<"TypeError">>)
                 ELSE IF level.t # "int" THEN Raise(<<"TypeError">>)
                 ELSE L(<<section_copy>> \o
                        [i \in 1..Len(items.v) |->
                            D(("parent_id" :> Get(section.v, "id", None))
                              @@ ("level" :> N(level.v + 1))
                              @@ items.v[i].v)])
        ELSE L(<<section_copy>>)

RECURSIVE ConcatLists(_)
ConcatLists(lists) ==
    IF lists = <<>> THEN <<>> ELSE Head(lists).v \o ConcatLists(Tail(lists))

_flatten_grouped_sections(grouped) ==
    LET parts == [i \in 1..Len(grouped) |-> FlattenGroup(grouped[i])]
    IN  IF AnyRaise(parts) THEN FirstRaise(parts) ELSE L(ConcatLists(parts))

\* generate, line 135
SECTIONS_PER_BATCH == 4

\* generate, lines 136-140: for i in range(0, len(l), size): l[i:i + size]
Min(a, b) == IF a < b THEN a ELSE b
\* batches that each take one section of the next batch as well
OverlappingBatches(l, size) ==
    [b \in 1..((Len(l) + size - 1) \div size) |->
        SubSeq(l, (b - 1) * size + 1, Min(b * size + 1, Len(l)))]

Batches(l, size) ==
    [b \in 1..((Len(l) + size - 1) \div size) |->
        SubSeq(l, (b - 1) * size + 1, Min(b * size, Len(l)))]

\* a Python dict keyed by str, as the sequence of its items in insertion order
DictKeys(d) == {d[i].k : i \in DOMAIN d}
DictGet(d, k) ==
    IF k \in DictKeys(d) THEN d[CHOOSE i \in DOMAIN d : d[i].k = k].v ELSE None
DictSet(d, k, v) ==
    IF k \in DictKeys(d)
    THEN [i \in DOMAIN d |-> IF d[i].k = k THEN [k |-> k, v |-> v] ELSE d[i]]
    ELSE Append(d, [k |-> k, v |-> v])

\* generate, lines 159-160: extracted_sections[section.id] = section, for each
RECURSIVE StoreSections(_, _)
StoreSections(d, sections) ==
    IF sections = <<>> THEN d
    ELSE StoreSections(DictSet(d, Head(sections).id, Head(sections)), Tail(sections))

\* generate, lines 169-179: the placeholder of one section of a failed batch
BatchPlaceholder(s, e) ==
    Section(Get(s.v, "id", W("unknown")),
            Get(s.v, "title", W("Unknown")),
            Get(s.v, "level", N(1)),
            S(<<"Error extracting section: ">> \o SubSeq(e, 1, Min(Len(e), 100))),
            None, L(<<>>), L(<<>>), L(<<>>), None)


\* _reconstruct_hierarchy, lines 425-428 and 453-456: the first extracted section
\* whose lowered title equals the lowered title of the group (None if there is none)
TitleMatch(extracted, g) ==
    LET title == Get(g, "title", S(<<>>))
        stops == {i \in DOMAIN extracted :
                    \/ extracted[i].v.title.t # "str"
                    \/ title.t # "str"
                    \/ Lower(extracted[i].v.title.v) = Lower(title.v)}
    IN  IF stops = {} THEN None
        ELSE LET i == CHOOSE i \in stops : \A j \in stops : i <= j
             IN  IF extracted[i].v.title.t # "str" \/ title.t # "str"
                 THEN Raise(<<"AttributeError">>)
                 ELSE extracted[i].v

\* lines 420-442: the Section of a group
ResolveGroup(extracted, g) ==
    LET section_id == Get(g, "id", W("unknown"))
        by_id == DictGet(extracted, section_id)
        by_title == IF by_id.t = "None" THEN TitleMatch(extracted, g) ELSE by_id
    IN  IF by_title.t = "None"
        THEN Section(section_id, Get(g, "title", W("Unknown")), Get(g, "level", N(1)),
                     S(<<>>), None, L(<<>>), L(<<>>), L(<<>>), None)
        ELSE by_title

\* line 470: the data of a child that carries a category
ChildData(child_section, category) ==
    D(("category" :> category)
      @@ (IF Truthy(child_section.data) THEN child_section.data.v ELSE EmptyDict))

\* lines 447-485: the subsection of one child of a parent group
ResolveChild(extracted, g, child) ==
    IF child.t # "dict" THEN Raise(<<"AttributeError">>)
    ELSE
    LET c == child.v
        child_id == Get(c, "id", W("unknown"))
        category == Get(c, "category", None)
        by_id == DictGet(extracted, child_id)
        child_section == IF by_id.t = "None" THEN TitleMatch(extracted, c) ELSE by_id
        level == Get(g, "level", N(1))
    IN  IF IsRaise(child_section) THEN child_section
        ELSE IF child_section.t = "Section"
        THEN IF Truthy(category)
             THEN Section(child_section.id, child_section.title, child_section.level,
                          child_section.summary, child_section.content,
                          child_section.key_points, child_section.images,
                          child_section.subsections, ChildData(child_section, category))
             ELSE child_section
        ELSE IF level.t # "int" THEN Raise(<<"TypeError">>)
        ELSE Section(child_id, Get(c, "title", W("Unknown")), N(level.v + 1),
                     S(<<>>), None, L(<<>>), L(<<>>), L(<<>>),
                     IF Truthy(category) THEN D("category" :> category) ELSE None)

\* a reconstruction that leaves every group as it was resolved
ResolvedOnly(extracted, group) == ResolveGroup(extracted, group.v)

\* lines 419-500: the top-level Section of one group
ReconstructGroup(extracted, group) ==
    LET g == group.v
        section == ResolveGroup(extracted, g)
    IN  IF IsRaise(section) THEN section
        ELSE IF Get(g, "type", None) = W("parent") /\ Truthy(Get(g, "children", None))
        THEN LET items == Iter(Get(g, "children", L(<<>>)))
             IN  IF IsRaise(items) THEN items
                 ELSE LET subsections == [i \in 1..Len(items.v) |->
                                            ResolveChild(extracted, g, items.v[i])]
                      IN  IF AnyRaise(subsections) THEN FirstRaise(subsections)
                          ELSE Section(section.id, section.title, section.level,
                                       section.summary, section.content,
                                       section.key_points, section.images,
                                       L(subsections), section.data)
        ELSE section

\* _reconstruct_hierarchy: the list of top-level sections, or the raised exception
_reconstruct_hierarchy(grouped, extracted) ==
    LET result == [i \in 1..Len(grouped) |-> ReconstructGroup(extracted, grouped[i])]
    IN  IF AnyRaise(result) THEN FirstRaise(result) ELSE L(result)

\* a count of the top-level sections only
CountTopLevelOnly(sections) == Len(sections)

\* _count_sections
RECURSIVE _count_sections(_)
_count_sections(sections) ==
    LET RECURSIVE Count(_)
        Count(i) == IF i = 0 THEN Len(sections)
                    ELSE Count(i - 1) + _count_sections(sections[i].subsections.v)
    IN  Count(Len(sections))

\* _merge_into_kb
_merge_into_kb(metadata, sections) ==
    LET m == KBMetadata(Get(metadata.v, "product", None),
                        Get(metadata.v, "target_audience", None),
                        N(_count_sections(sections.v)))
    IN  IF IsRaise(m) THEN m
        ELSE KnowledgeBase(m, Get(metadata.v, "document_summary", S(<<>>)),
                           Get(metadata.v, "key_value_proposition", None), sections)


-----------------------------------------------------------------------------
(* The inputs of generate: the outline and the replies of the LLM.  A reply *)
(* is what call_text_only followed by parse_json_response hands back: a     *)
(* parsed JSON value, or the exception one of the two raised.               *)

OutlineTypes == <<"heading", "faq", "table", "cta", "testimonial">>

\* get_sections_for_extraction: the dict of the i-th parsed section
OutlineEntry(i) ==
    D([id |-> S(<<"t", ToString(i)>>),
       title |-> S(<<"T", ToString(i)>>),
       level |-> N(i),
       type |-> W(OutlineTypes[((i - 1) % Len(OutlineTypes)) + 1]),
       content_preview |-> W("text")])

Outlines == {[i \in 1..n |-> OutlineEntry(i)] : n \in 0..MaxOutline}

ShortErr == <<"E">>
LongErr == [i \in 1..120 |-> "x"]

MetadataReplies ==
    { D([product |-> W("P"), target_audience |-> W("Aud"),
         document_summary |-> W("Sum"), key_value_proposition |-> W("Val")]),
      D(EmptyDict),
      D([product |-> None, target_audience |-> None,
         document_summary |-> W("Sum"), key_value_proposition |-> None]),
      L(<<>>),
      Raise(ShortErr) }

GroupId(i) == S(<<"g", ToString(i)>>)
GroupTitle(i) == S(<<"T", ToString(i)>>)
ChildId(i, j) == S(<<"g", ToString(i), "c", ToString(j)>>)
ChildTitle(i, j) == S(<<"T", ToString(i), "C", ToString(j)>>)

GroupingVariants ==
    {"plain", "null_id", "dup_id", "no_id", "null_title", "no_type",
     "category", "null_level", "child_dup"}

\* the j-th child of the i-th group in the LLM's grouping reply
ReplyChild(i, j, variant) ==
    D(  (IF variant = "category" /\ i = 1 /\ j = 1
         THEN "category" :> W("x") ELSE EmptyDict)
     @@ [id |-> IF variant = "child_dup" /\ i = 1 /\ j = 1 THEN GroupId(1) ELSE ChildId(i, j),
         title |-> ChildTitle(i, j)])

\* the i-th of n groups in the LLM's grouping reply; it is a parent of k children
ReplyGroup(i, n, k, variant) ==
    LET id == IF variant = "null_id" /\ i = 1 THEN None
              ELSE IF variant = "dup_id" /\ i = n THEN GroupId(1)
              ELSE GroupId(i)
        title == IF variant = "null_title" /\ i = 1 THEN None
                 ELSE IF variant = "no_id" /\ i = 1 THEN S(<<"T", " ", "-", "A">>)
                 ELSE GroupTitle(i)
        level == IF variant = "null_level" /\ i = 1 THEN None ELSE N(1)
        all == [id |-> id, title |-> title, level |-> level,
                type |-> IF k > 0 THEN W("parent") ELSE W("standalone"),
                children |-> L([j \in 1..k |-> ReplyChild(i, j, variant)])]
        drop == (IF variant = "no_id" /\ i = 1 THEN {"id"} ELSE {})
                \cup (IF variant = "no_type" /\ i = 1 THEN {"type"} ELSE {})
                \cup (IF k = 0 THEN {"children"} ELSE {})
    IN  D([key \in DOMAIN all \ drop |-> all[key]])

\* n groups of which the first p are parents of k children each
GroupingReply(n, p, k, variant) ==
    D([grouped_sections |->
          L([i \in 1..n |-> ReplyGroup(i, n, IF i <= p THEN k ELSE 0, variant)]),
       total_sections_found |-> N(n)])

\* the shapes <<n, p, k>> of at most m sections: n groups, the first p of them
\* parents of k children each
GroupingShapes(m) ==
    { sh \in (0..MaxGroups) \X (0..MaxGroups) \X (1..MaxChildren) :
        sh[2] <= sh[1] /\ sh[1] + sh[2] * sh[3] <= m }

\* well-formed replies of up to MaxSections sections, and replies with one
\* irregular group or child of up to MaxVariantSections sections
GroupingReplies ==
    { GroupingReply(sh[1], sh[2], sh[3], "plain") : sh \in GroupingShapes(MaxSections) }
    \cup { GroupingReply(sh[1], sh[2], sh[3], variant) :
              sh \in GroupingShapes(MaxVariantSections), variant \in GroupingVariants }
    \cup { D(EmptyDict), D([grouped_sections |-> None]), L(<<>>), Raise(ShortErr) }


\* The extraction prompt names each section by title and level; the ids of the
\* returned sections are the LLM's own.
EchoSection(sched) ==
    [id |-> Get(sched.v, "id", W("unknown")),
     title |-> Get(sched.v, "title", W("Unknown")),
     level |-> Get(sched.v, "level", N(1)),
     summary |-> W("ok"),
     content |-> W("text"),
     key_points |-> L(<<W("point")>>),
     images |-> L(<<D([image_id |-> W("img_001"), local_path |-> W("p.png")])>>),
     subsections |-> L(<<>>),
     data |-> None]

BatchReplyKinds ==
    {"echo", "renamed", "retitled", "collide", "null_field", "nested", "empty"}

\* a reply to the extraction call of batch b (of the batches bs), by kind
BatchReply(bs, b, kind) ==
    LET batch == bs[b]
        other == bs[(b % Len(bs)) + 1]
        echo == [i \in 1..Len(batch) |-> D(EchoSection(batch[i]))]
        title1 == Get(batch[1].v, "title", W("Unknown"))
    IN  CASE kind = "echo" -> D([sections |-> L(echo)])
          [] kind = "renamed" ->
                D([sections |-> L([i \in 1..Len(batch) |->
                    D([EchoSection(batch[i]) EXCEPT
                         !.id = S(<<"x", ToString(b), ToString(i)>>),
                         !.title = IF @.t = "str" THEN S(Lower(@.v)) ELSE @])])])
          [] kind = "retitled" ->
                D([sections |-> L([i \in 1..Len(batch) |->
                    IF i = 1
                    THEN D([EchoSection(batch[i]) EXCEPT
                              !.id = W("x"), !.title = W("Retitled")])
                    ELSE echo[i]])])
          [] kind = "collide" ->
                D([sections |-> L(Append(echo,
                    D([EchoSection(other[1]) EXCEPT
                         !.title = W("Stray"), !.summary = W("stray")])))])
          [] kind = "null_field" ->
                D([sections |-> L([i \in 1..Len(batch) |->
                    IF i = 1 THEN D([EchoSection(batch[i]) EXCEPT !.key_points = None])
                    ELSE echo[i]])])
          [] kind = "nested" ->
                D([sections |-> L(<<
                    D([id |-> Get(batch[1].v, "id", W("unknown")),
                       title |-> title1,
                       subsections |-> L(<<
                          D([title |-> W("Sub"),
                             subsections |-> L(<<D([id |-> W("leaf")])>>)])>>)])>>)])
          [] OTHER -> D([sections |-> L(<<>>)])

BatchReplies(bs, b) ==
    {BatchReply(bs, b, kind) : kind \in BatchReplyKinds}
    \cup {Raise(ShortErr), Raise(LongErr)}

-----------------------------------------------------------------------------
(* MultiCallKBGenerator.generate, one action per LLM call; what generate   *)
(* does between two calls belongs to the action of the earlier call.       *)

Fail(where) ==
    /\ pc' = "failed"
    /\ raised_in' = where

\* lines 87-96: _extract_metadata_only and the two prints of its result
ExtractMetadata ==
    /\ pc = "metadata"
    /\ \E reply \in MetadataReplies :
        /\ llm_calls' = Append(llm_calls, "metadata")
        /\ IF IsRaise(reply)
           THEN Fail("_extract_metadata_only") /\ UNCHANGED metadata_result
           ELSE IF reply.t # "dict"
                   \/ Get(reply.v, "target_audience", W("Unknown")).t \notin {"str", "list"}
           THEN Fail("generate") /\ UNCHANGED metadata_result
           ELSE /\ metadata_result' = reply
                /\ pc' = "grouping"
                /\ UNCHANGED raised_in
    /\ UNCHANGED <<flat_sections, llm_group_count, grouped_sections, section_batches,
                   batch_i, extracted_sections, batch_log, kb>>
    /\ UNCHANGED <<jsonVars, filterVars, laterVars>>

\* line 129
MainContent ==
    D([id |-> W("main_content"), title |-> W("Main Content"),
       type |-> W("standalone"), level |-> N(1)])

\* _semantic_grouping, lines 297-300: len(grouped) of a reply that did not raise
GroupCount(reply) == Len(Iter(Get(reply.v, "grouped_sections", L(<<>>))).v)

\* lines 106-142: _semantic_grouping, the main_content default, flattening, batching
SemanticGrouping ==
    /\ pc = "grouping"
    /\ \E reply \in GroupingReplies :
        LET g == _semantic_grouping(flat_sections, reply)
            grouped == IF g.v = <<>> THEN <<MainContent>> ELSE g.v
            sections_to_process == _flatten_grouped_sections(grouped)
        IN  /\ llm_calls' = Append(llm_calls, "grouping")
            /\ IF IsRaise(g)
               THEN Fail("_semantic_grouping")
                    /\ UNCHANGED <<llm_group_count, grouped_sections, section_batches>>
               ELSE IF IsRaise(sections_to_process)
               THEN Fail("_flatten_grouped_sections")
                    /\ UNCHANGED <<llm_group_count, grouped_sections, section_batches>>
               ELSE /\ llm_group_count' = GroupCount(reply)
                    /\ grouped_sections' = grouped
                    /\ section_batches' = Batches(sections_to_process.v, SECTIONS_PER_BATCH)
                    /\ pc' = "extract"
                    /\ UNCHANGED raised_in
    /\ UNCHANGED <<flat_sections, metadata_result, batch_i, extracted_sections,
                   batch_log, kb>>
    /\ UNCHANGED <<jsonVars, filterVars, laterVars>>

\* line 147: s.get('title', s.get('id', 'Unknown'))[:30] of every section of the batch
BatchTitlesOk(batch) ==
    \A i \in 1..Len(batch) :
        Get(batch[i].v, "title", Get(batch[i].v, "id", W("Unknown"))).t \in {"str", "list"}

\* lines 146-202: one batch, and after the last one reconstruction and merge
ExtractBatch ==
    /\ pc = "extract"
    /\ batch_i < Len(section_batches)
    /\ LET batch == section_batches[batch_i + 1]
       IN  IF ~BatchTitlesOk(batch)
           THEN /\ Fail("generate")
                /\ UNCHANGED <<llm_calls, extracted_sections, batch_log, batch_i, kb>>
           ELSE
           \E reply \in BatchReplies(section_batches, batch_i + 1) :
             LET r == _extract_sections_batch(reply)
                 placeholders == [i \in 1..Len(batch) |->
                                    BatchPlaceholder(batch[i], IF IsRaise(r) THEN r.err ELSE <<>>)]
                 extracted == IF IsRaise(r)
                              THEN StoreSections(extracted_sections, placeholders)
                              ELSE StoreSections(extracted_sections, r.v)
                 all_sections == _reconstruct_hierarchy(grouped_sections, extracted)
                 merged == _merge_into_kb(metadata_result, all_sections)
             IN  /\ llm_calls' = Append(llm_calls, "extract")
                 /\ batch_log' = Append(batch_log,
                        [raised |-> IsRaise(r),
                         err |-> IF IsRaise(r) THEN r.err ELSE <<>>,
                         sections |-> IF IsRaise(r) THEN <<>> ELSE r.v])
                 /\ batch_i' = batch_i + 1
                 /\ IF IsRaise(r) /\ AnyRaise(placeholders)
                    THEN Fail("generate") /\ UNCHANGED <<extracted_sections, kb>>
                    ELSE /\ extracted_sections' = extracted
                         /\ IF batch_i + 1 < Len(section_batches)
                            THEN UNCHANGED <<pc, raised_in, kb>>
                            ELSE IF IsRaise(all_sections)
                            THEN Fail("_reconstruct_hierarchy") /\ UNCHANGED kb
                            ELSE IF IsRaise(merged)
                            THEN Fail("_merge_into_kb") /\ UNCHANGED kb
                            ELSE /\ kb' = merged
                                 /\ pc' = "done"
                                 /\ UNCHANGED raised_in
    /\ UNCHANGED <<flat_sections, metadata_result, llm_group_count, grouped_sections,
                   section_batches>>
    /\ UNCHANGED <<jsonVars, filterVars, laterVars>>

\* a generate that begins with the grouping call
InitAtGrouping ==
    /\ pc = "grouping"
    /\ flat_sections \in Outlines
    /\ metadata_result = D(EmptyDict)
    /\ llm_group_count = -1
    /\ grouped_sections = <<>>
    /\ section_batches = <<>>
    /\ batch_i = 0
    /\ extracted_sections = <<>>
    /\ batch_log = <<>>
    /\ llm_calls = <<>>
    /\ kb = None
    /\ raised_in = ""

GenInit ==
    /\ pc = "metadata"
    /\ flat_sections \in Outlines
    /\ metadata_result = None
    /\ llm_group_count = -1
    /\ grouped_sections = <<>>
    /\ section_batches = <<>>
    /\ batch_i = 0
    /\ extracted_sections = <<>>
    /\ batch_log = <<>>
    /\ llm_calls = <<>>
    /\ kb = None
    /\ raised_in = ""

JsonIdle == response = <<>> /\ json_str = None /\ json_out = None
FilterIdle == images = <<>> /\ passed = <<>> /\ skipped = <<>> /\ stats = None
ParseIdle == seen_ids = {} /\ parsed_sections = <<>>
TableIdle == table = None /\ table_data = None
ClassifyIdle ==
    /\ image_batches = <<>>
    /\ batches_done = 0
    /\ all_included = <<>>
    /\ all_excluded = <<>>
    /\ classify_log = <<>>
    /\ classify_out = None
CleanIdle == html_doc = None /\ cleaned = None /\ recleaned = None
CallIdle ==
    /\ call_kind = ""
    /\ max_retries = 0
    /\ attempt = 0
    /\ api_log = <<>>
    /\ call_result = None
RunIdle ==
    /\ folders = <<>>
    /\ skip_processed = FALSE
    /\ report_data = <<>>
    /\ folder_i = 0
    /\ run_attempt = 0
    /\ run_log = <<>>
ChunkIdle == batch_input = <<>> /\ batch_size_arg = None /\ batch_result = None
RebuildIdle == rebuilt_sections = None
GateIdle ==
    /\ clock = 0
    /\ last_call_time = 0
    /\ first_request = None
    /\ client_calls = <<>>
TruncateIdle == truncate_in = None /\ truncate_out = None
MoreIdle == RebuildIdle /\ GateIdle /\ TruncateIdle
LaterIdle ==
    /\ ParseIdle /\ TableIdle /\ ClassifyIdle /\ CleanIdle /\ CallIdle
    /\ RunIdle /\ ChunkIdle /\ MoreIdle

Init == GenInit /\ JsonIdle /\ FilterIdle /\ LaterIdle
Next == ExtractMetadata \/ SemanticGrouping \/ ExtractBatch
Spec == Init /\ [][Next]_vars


-----------------------------------------------------------------------------
(* The section tree of the returned KnowledgeBase *)

\* the paths (index sequences) of the nodes of a forest
RECURSIVE Paths(_)
Paths(sections) ==
    UNION { {<<i>>} \cup { <<i>> \o q : q \in Paths(sections[i].subsections.v) } :
            i \in 1..Len(sections) }

RECURSIVE NodeAt(_, _)
NodeAt(sections, path) ==
    IF Len(path) = 1 THEN sections[path[1]]
    ELSE NodeAt(sections[path[1]].subsections.v, Tail(path))

Tree == kb.sections.v
TreePaths == Paths(Tree)
TreeNodes == { NodeAt(Tree, q) : q \in TreePaths }

Done == pc = "done"

-----------------------------------------------------------------------------
(* Properties of MultiCallKBGenerator.generate *)

ErrorPrefix == <<"Error extracting section: ">>

\* the fields of a Section that reconstruction does not rewrite
Core(sec) == [id |-> sec.id, title |-> sec.title, level |-> sec.level,
              summary |-> sec.summary, content |-> sec.content,
              key_points |-> sec.key_points, images |-> sec.images]

\* C1: when generate returns, every section scheduled in a batch whose
\* extraction raised is in the final tree as a placeholder whose summary is
\* 'Error extracting section: ' followed by the first 100 characters of the
\* error, and every section returned by a batch that did not raise is in the
\* final tree unchanged.
C1_BatchFailureIsolated ==
    Done =>
        \A b \in 1..Len(batch_log) :
            IF batch_log[b].raised
            THEN \A i \in 1..Len(section_batches[b]) :
                    \E node \in TreeNodes :
                        /\ node.id = Get(section_batches[b][i].v, "id", W("unknown"))
                        /\ node.summary =
                             S(ErrorPrefix \o SubSeq(batch_log[b].err, 1,
                                                      Min(Len(batch_log[b].err), 100)))
            ELSE \A i \in 1..Len(batch_log[b].sections) :
                    \E node \in TreeNodes : Core(node) = Core(batch_log[b].sections[i])

\* a Section whose required fields are all present with the declared types
RECURSIVE WellFormedSection(_)
WellFormedSection(sec) ==
    /\ sec.t = "Section"
    /\ sec.id.t = "str"
    /\ sec.title.t = "str"
    /\ sec.level.t = "int"
    /\ sec.summary.t = "str"
    /\ sec.key_points.t = "list"
    /\ sec.images.t = "list"
    /\ sec.subsections.t = "list"
    /\ \A i \in DOMAIN sec.subsections.v : WellFormedSection(sec.subsections.v[i])

\* C2: every Section of the tree returned by generate, at any depth, has a
\* string id, a string title, an integer level, a string summary and lists
\* for key_points, images and subsections, whatever the LLM replies carried.
C2_SectionSchemaComplete ==
    Done => \A i \in DOMAIN Tree : WellFormedSection(Tree[i])

\* C2 case: a returned tree that holds, side by side, a section parsed from a
\* reply that left fields out, a placeholder of a failed batch, and a section
\* below the top level.
C2_Witness ==
    /\ Done
    /\ \E b \in 1..Len(batch_log) : batch_log[b].raised
    /\ \E b \in 1..Len(batch_log) : \E i \in 1..Len(batch_log[b].sections) :
          /\ batch_log[b].sections[i].summary.v = <<>>
          /\ batch_log[b].sections[i].key_points.v = <<>>
          /\ \E node \in TreeNodes : Core(node) = Core(batch_log[b].sections[i])
    /\ \E node \in TreeNodes :
          Len(node.summary.v) > 1 /\ SubSeq(node.summary.v, 1, 1) = ErrorPrefix
    /\ \E q \in TreePaths : Len(q) >= 2

\* C3: _reconstruct_hierarchy never raises, whatever ids and titles the
\* groups and the extracted sections carry.
C3_ReconstructNeverRaises == raised_in # "_reconstruct_hierarchy"

\* C7: when the grouping reply yields zero groups, the grouping stage returns
\* one group per outline entry, in outline order, each of type 'standalone'.
C7_FallbackAllStandalone ==
    (pc \in {"extract", "done"} /\ llm_group_count = 0 /\ flat_sections # <<>>) =>
        /\ Len(grouped_sections) = Len(flat_sections)
        /\ \A i \in 1..Len(flat_sections) :
              /\ Get(grouped_sections[i].v, "id", None) = Get(flat_sections[i].v, "id", None)
              /\ Get(grouped_sections[i].v, "type", None) = W("standalone")

\* C8: metadata.total_sections of the returned KnowledgeBase is the number of
\* Section nodes of the tree, every descendant at any depth counted once.
C8_TotalSectionsCountsAllNodes ==
    Done => kb.metadata.total_sections = N(Cardinality(TreePaths))

\* C8 case: two top-level sections, one of them with three leaf subsections,
\* give total_sections 5.
C8_Witness ==
    /\ Done
    /\ Len(Tree) = 2
    /\ \E i \in 1..2 :
          /\ Len(Tree[i].subsections.v) = 3
          /\ \A j \in 1..3 : Tree[i].subsections.v[j].subsections.v = <<>>
          /\ Tree[3 - i].subsections.v = <<>>
    /\ kb.metadata.total_sections = N(5)

-----------------------------------------------------------------------------
(* llm/client.py: ClaudeClient.parse_json_response.  A str is the sequence *)
(* of its characters; a parsed object is a dict from key to value.         *)

WS == {" ", "\n", "\t", "\r"}

\* the first index from i on that holds no whitespace (Len(s) + 1 at the end)
RECURSIVE SkipWS(_, _)
SkipWS(s, i) == IF i <= Len(s) /\ s[i] \in WS THEN SkipWS(s, i + 1) ELSE i

\* s[i:].startswith(lit)
StartsAt(s, i, lit) ==
    /\ i >= 1
    /\ i + Len(lit) - 1 <= Len(s)
    /\ SubSeq(s, i, i + Len(lit) - 1) = lit

\* the backtick character (a string of the module cannot hold it)
BT == "backtick"
Fence == <<BT, BT, BT>>
JsonTag == <<"j", "s", "o", "n">>

MinOf(set) == CHOOSE x \in set : \A y \in set : x <= y
MaxOf(set) == CHOOSE x \in set : \A y \in set : x >= y

\* str.strip()
StripWS(s) ==
    LET keep == {i \in 1..Len(s) : s[i] \notin WS}
    IN  IF keep = {} THEN <<>> ELSE SubSeq(s, MinOf(keep), MaxOf(keep))

\* line 319: re.search of the fence pattern (three backticks, an optional json
\* tag, whitespace, a lazy group, whitespace, three backticks), group(1);
\* None when nothing matches.  The match starts at the first fence that has
\* another fence after it, the tag and the whitespace are taken greedily and
\* the group ends at the first place followed by whitespace and a fence.
FencedBlock(resp) ==
    LET starts == {i \in 1..Len(resp) :
                      /\ StartsAt(resp, i, Fence)
                      /\ \E j \in (i + 3)..Len(resp) : StartsAt(resp, j, Fence)}
    IN  IF starts = {} THEN None
        ELSE LET i == MinOf(starts)
                 a == IF StartsAt(resp, i + 3, JsonTag) THEN i + 7 ELSE i + 3
                 g == SkipWS(resp, a)
                 e == MinOf({k \in g..Len(resp) :
                               StartsAt(resp, SkipWS(resp, k), Fence)})
             IN  S(SubSeq(resp, g, e - 1))

\* a search for an opening brace alone: the text from it to the end
RawObjectUnclosed(resp) ==
    LET opens == {i \in 1..Len(resp) : resp[i] = "{"}
    IN  IF opens # {} THEN S(SubSeq(resp, MinOf(opens), Len(resp))) ELSE None

\* line 324: re.search of an opening brace, anything, a closing brace (greedy),
\* group(0); None without a match
RawObject(resp) ==
    LET opens == {i \in 1..Len(resp) : resp[i] = "{"}
        closes == {j \in 1..Len(resp) : resp[j] = "}"}
    IN  IF opens # {} /\ closes # {} /\ MaxOf(closes) > MinOf(opens)
        THEN S(SubSeq(resp, MinOf(opens), MaxOf(closes)))
        ELSE None

\* json.loads: scan_once at index i; [ok, v, i] with i the index after the value
RECURSIVE ParseValue(_, _)
RECURSIVE ParseMembers(_, _, _)
RECURSIVE ParseElements(_, _, _)

Digits == {"0", "1", "2", "3", "4", "5", "6", "7", "8", "9"}
DigitValue(c) ==
    CASE c = "0" -> 0 [] c = "1" -> 1 [] c = "2" -> 2 [] c = "3" -> 3 [] c = "4" -> 4
      [] c = "5" -> 5 [] c = "6" -> 6 [] c = "7" -> 7 [] c = "8" -> 8 [] OTHER -> 9

NoParse == [ok |-> FALSE, v |-> None, i |-> 0]
Parsed(v, i) == [ok |-> TRUE, v |-> v, i |-> i]

\* a string from the quote at i to the next quote; a control character or a
\* backslash escape outside the modelled alphabet ends the parse
ParseString(s, i) ==
    LET ends == {j \in (i + 1)..Len(s) : s[j] = "\""}
    IN  IF ends = {} THEN NoParse
        ELSE LET j == MinOf(ends)
             IN  IF \E k \in (i + 1)..(j - 1) : s[k] \in {"\n", "\t", "\r", "\\"}
                 THEN NoParse
                 ELSE Parsed(S(SubSeq(s, i + 1, j - 1)), j + 1)

\* an integer without sign, fraction or exponent: 0 or [1-9][0-9]*
RECURSIVE DigitsEnd(_, _)
DigitsEnd(s, i) == IF i <= Len(s) /\ s[i] \in Digits THEN DigitsEnd(s, i + 1) ELSE i

RECURSIVE DecimalValue(_)
DecimalValue(ds) ==
    IF ds = <<>> THEN 0
    ELSE 10 * DecimalValue(SubSeq(ds, 1, Len(ds) - 1)) + DigitValue(ds[Len(ds)])

ParseNumber(s, i) ==
    LET e == IF s[i] = "0" THEN i + 1 ELSE DigitsEnd(s, i)
    IN  Parsed(N(DecimalValue(SubSeq(s, i, e - 1))), e)

\* the members of an object after the opening brace or a comma: a key is due at i
ParseMembers(s, i, acc) ==
    IF i > Len(s) \/ s[i] # "\"" THEN NoParse
    ELSE LET key == ParseString(s, i)
             c == SkipWS(s, key.i)
         IN  IF ~key.ok \/ c > Len(s) \/ s[c] # ":" THEN NoParse
             ELSE LET val == ParseValue(s, SkipWS(s, c + 1))
                      n == SkipWS(s, val.i)
                      acc2 == (key.v.v :> val.v) @@ acc
                  IN  IF ~val.ok \/ n > Len(s) THEN NoParse
                      ELSE IF s[n] = "}" THEN Parsed(D(acc2), n + 1)
                      ELSE IF s[n] = "," THEN ParseMembers(s, SkipWS(s, n + 1), acc2)
                      ELSE NoParse

\* the elements of an array after the opening bracket or a comma
ParseElements(s, i, acc) ==
    LET val == ParseValue(s, i)
        n == SkipWS(s, val.i)
    IN  IF ~val.ok \/ n > Len(s) THEN NoParse
        ELSE IF s[n] = "]" THEN Parsed(L(Append(acc, val.v)), n + 1)
        ELSE IF s[n] = "," THEN ParseElements(s, SkipWS(s, n + 1), Append(acc, val.v))
        ELSE NoParse

ParseValue(s, i) ==
    IF i > Len(s) THEN NoParse
    ELSE IF s[i] = "\"" THEN ParseString(s, i)
    ELSE IF s[i] = "{"
         THEN LET n == SkipWS(s, i + 1)
              IN  IF n <= Len(s) /\ s[n] = "}" THEN Parsed(D(EmptyDict), n + 1)
                  ELSE ParseMembers(s, n, EmptyDict)
    ELSE IF s[i] = "["
         THEN LET n == SkipWS(s, i + 1)
              IN  IF n <= Len(s) /\ s[n] = "]" THEN Parsed(L(<<>>), n + 1)
                  ELSE ParseElements(s, n, <<>>)
    ELSE IF s[i] \in Digits THEN ParseNumber(s, i)
    ELSE NoParse

\* json.loads(s): the value, or JSONDecodeError
json_loads(s) ==
    LET r == ParseValue(s, SkipWS(s, 1))
    IN  IF r.ok /\ SkipWS(s, r.i) = Len(s) + 1 THEN r.v
        ELSE Raise(<<"JSONDecodeError">>)

\* re.sub of a comma, whitespace and the closer by the closer alone, from i on
RECURSIVE SubTrailingComma(_, _, _)
SubTrailingComma(s, i, closer) ==
    LET hits == {k \in i..Len(s) :
                    /\ s[k] = ","
                    /\ SkipWS(s, k + 1) <= Len(s)
                    /\ s[SkipWS(s, k + 1)] = closer}
    IN  IF hits = {} THEN SubSeq(s, i, Len(s))
        ELSE LET k == MinOf(hits)
             IN  SubSeq(s, i, k - 1) \o <<closer>>
                   \o SubTrailingComma(s, SkipWS(s, k + 1) + 1, closer)

\* _repair_json, lines 359-360
_repair_json(jstr) ==
    SubTrailingComma(SubTrailingComma(jstr, 1, "}"), 1, "]")

\* the characters the scan of _truncate_to_valid_json reacts to
ScanChars == {"\\", "\"", "{", "}", "[", "]"}

\* _truncate_to_valid_json, lines 376-407: the scan of the characters from i
\* on; a character that changes nothing is passed over
RECURSIVE ScanDepths(_, _, _)
ScanDepths(s, i, st) ==
    IF i > Len(s) THEN st
    ELSE IF ~st.escape_next /\ s[i] \notin ScanChars
    THEN LET next == {k \in i..Len(s) : s[k] \in ScanChars}
         IN  IF next = {} THEN st ELSE ScanDepths(s, MinOf(next), st)
    ELSE LET char == s[i]
             st2 ==
               IF st.escape_next THEN [st EXCEPT !.escape_next = FALSE]
               ELSE IF char = "\\" THEN [st EXCEPT !.escape_next = TRUE]
               ELSE IF char = "\"" THEN [st EXCEPT !.in_string = ~st.in_string]
               ELSE IF st.in_string THEN st
               ELSE IF char = "{" THEN [st EXCEPT !.depth_brace = @ + 1]
               ELSE IF char = "}"
                    THEN [st EXCEPT !.depth_brace = @ - 1,
                                    !.last_valid_pos =
                                        IF st.depth_brace - 1 = 0 /\ st.depth_bracket = 0
                                        THEN i ELSE @]
               ELSE IF char = "[" THEN [st EXCEPT !.depth_bracket = @ + 1]
               ELSE IF char = "]" THEN [st EXCEPT !.depth_bracket = @ - 1]
               ELSE st
         IN  ScanDepths(s, i + 1, st2)

\* lines 419-421: re.sub of a comma, whitespace, an opener and a rest without
\* the closer up to the end of the string, by nothing
CutIncomplete(t, opener, closer) ==
    LET cands == {i \in 1..Len(t) :
                    /\ t[i] = ","
                    /\ LET q == SkipWS(t, i + 1)
                       IN  /\ q <= Len(t)
                           /\ t[q] = opener
                           /\ \A k \in (q + 1)..Len(t) : t[k] # closer}
    IN  IF cands = {} THEN t ELSE SubSeq(t, 1, MinOf(cands) - 1)

\* c * n of Python: nothing for n <= 0
Repeat(c, n) == [k \in 1..n |-> c]

\* _truncate_to_valid_json, lines 370-429 (last_valid_pos counts characters)
_truncate_to_valid_json(jstr) ==
    LET st == ScanDepths(jstr, 1,
                  [depth_brace |-> 0, depth_bracket |-> 0, in_string |-> FALSE,
                   escape_next |-> FALSE, last_valid_pos |-> 0])
    IN  IF st.last_valid_pos > 0 THEN S(SubSeq(jstr, 1, st.last_valid_pos))
        ELSE IF st.depth_brace > 0 \/ st.depth_bracket > 0
        THEN S(CutIncomplete(CutIncomplete(CutIncomplete(jstr, "\"", "\""),
                                           "{", "}"), "[", "]")
               \o Repeat("]", st.depth_bracket) \o Repeat("}", st.depth_brace))
        ELSE None

\* line 328
NoJsonFound(resp) ==
    [t |-> "raise", err |-> <<"No JSON found in response">>,
     head |-> SubSeq(resp, 1, Min(Len(resp), 500))]

\* line 354
RepairFailed(jstr) ==
    [t |-> "raise", err |-> <<"Failed to parse JSON after repair attempts">>,
     offset |-> Len(jstr),
     tail |-> IF Len(jstr) > 200
              THEN SubSeq(jstr, Len(jstr) - 199, Len(jstr))
              ELSE jstr]

\* lines 319-330: the JSON text taken from the response, stripped; None without
ExtractJsonText(resp) ==
    LET fenced == FencedBlock(resp)
        raw == RawObject(resp)
    IN  IF fenced # None THEN S(StripWS(fenced.v))
        ELSE IF raw # None THEN S(StripWS(raw.v))
        ELSE None

\* parse_json_response, lines 305-354
parse_json_response(resp) ==
    LET text == ExtractJsonText(resp)
    IN  IF text = None THEN NoJsonFound(resp)
        ELSE LET direct == json_loads(text.v)
                 fixed == json_loads(_repair_json(text.v))
                 truncated == _truncate_to_valid_json(text.v)
                 cut == json_loads(truncated.v)
             IN  IF ~IsRaise(direct) THEN direct
                 ELSE IF ~IsRaise(fixed) THEN fixed
                 ELSE IF truncated # None /\ truncated.v # <<>> /\ ~IsRaise(cut) THEN cut
                 ELSE RepairFailed(text.v)

-----------------------------------------------------------------------------
(* Responses given to parse_json_response *)

\* an object holding an array that holds an object: {"a": [1, 2, {"b": 3}]}
DocNested ==
    <<"{", "\"", "a", "\"", ":", " ", "[", "1", ",", " ", "2", ",", " ", "{", "\"",
      "b", "\"", ":", " ", "3", "}", "]", "}">>

\* the object of the fenced example: {"x":1}
DocSmall ==
    <<"{", "\"", "x", "\"", ":", "1", "}">>

\* an object with a nested object and a second key: {"a": {"b": 1}, "c": 2}
DocTwoKeys ==
    <<"{", "\"", "a", "\"", ":", " ", "{", "\"", "b", "\"", ":", " ", "1", "}", ",",
      " ", "\"", "c", "\"", ":", " ", "2", "}">>

\* an object whose string value holds three backticks: {"x": "(backtick)(backtick)(backtick)"}
DocFenceInString ==
    <<"{", "\"", "x", "\"", ":", " ", "\"", BT, BT, BT, "\"", "}">>

\* an object whose string value holds a closing brace: {"a": "}"}
DocBraceInString ==
    <<"{", "\"", "a", "\"", ":", " ", "\"", "}", "\"", "}">>

\* trailing commas before both closers (not valid JSON): {"a": [1, 2,], }
DocTrailingCommas ==
    <<"{", "\"", "a", "\"", ":", " ", "[", "1", ",", " ", "2", ",", "]", ",", " ", "}">>

\* an array at the top level: [1,2]
DocArray ==
    <<"[", "1", ",", "2", "]">>

ObjectDocs == {DocNested, DocSmall, DocTwoKeys, DocFenceInString, DocBraceInString}
Docs == ObjectDocs \cup {DocTrailingCommas, DocArray}

\* a text cut off after n characters
CutOff(d, n) == SubSeq(d, 1, n)
Cuts(d) == {CutOff(d, n) : n \in 0..Len(d)}

\* "Here you go:" and "Thanks", each with its line break
ProseBefore == <<"H", "e", "r", "e", " ", "y", "o", "u", " ", "g", "o", ":", "\n">>
ProseAfter == <<"\n", "T", "h", "a", "n", "k", "s">>
Newline == <<"\n">>

\* the body in a fenced block with the tag, prose around it
InFence(tag, body) ==
    ProseBefore \o Fence \o tag \o Newline \o body \o Newline \o Fence \o ProseAfter

\* a body longer than the 200 characters of the error's tail
MaxTail == 200
LongBody == <<"{">> \o [i \in 1..(MaxTail + 10) |-> "a"] \o <<"}">>

Responses ==
    UNION { {body,
             <<"a", " ">> \o body \o <<" ", "b">>,
             InFence(JsonTag, body),
             InFence(<<>>, body),
             Fence \o JsonTag \o Newline \o body,
             Fence \o Newline \o DocSmall \o Newline \o Fence \o Newline
                 \o Fence \o JsonTag \o Newline \o body \o Newline \o Fence} :
            body \in UNION {Cuts(d) : d \in Docs} }
    \cup {LongBody, Fence \o Fence, Fence \o JsonTag \o Fence}

-----------------------------------------------------------------------------
(* One call of parse_json_response on one response *)

\* the state of generate while no knowledge base is being generated
genRest == <<flat_sections, metadata_result, llm_group_count, grouped_sections,
             section_batches, batch_i, extracted_sections, batch_log, llm_calls, kb,
             raised_in>>

GenIdle ==
    /\ flat_sections = <<>>
    /\ metadata_result = None
    /\ llm_group_count = -1
    /\ grouped_sections = <<>>
    /\ section_batches = <<>>
    /\ batch_i = 0
    /\ extracted_sections = <<>>
    /\ batch_log = <<>>
    /\ llm_calls = <<>>
    /\ kb = None
    /\ raised_in = ""

InitJson ==
    /\ pc = "parse"
    /\ GenIdle
    /\ response \in Responses
    /\ json_str = None
    /\ json_out = None
    /\ FilterIdle
    /\ LaterIdle

ParseJsonResponse ==
    /\ pc = "parse"
    /\ pc' = "parsed"
    /\ json_str' = ExtractJsonText(response)
    /\ json_out' = parse_json_response(response)
    /\ UNCHANGED <<response, genRest, filterVars, laterVars>>

NextJson == ParseJsonResponse
SpecJson == InitJson /\ [][NextJson]_vars

-----------------------------------------------------------------------------
(* Properties of parse_json_response *)

Parsed_ == pc = "parsed"

\* the keys of the objects of a parsed value, at any depth
RECURSIVE AllKeys(_)
AllKeys(v) ==
    CASE v.t = "dict" -> DOMAIN v.v \cup UNION {AllKeys(v.v[k]) : k \in DOMAIN v.v}
      [] v.t = "list" -> UNION {AllKeys(v.v[i]) : i \in DOMAIN v.v}
      [] OTHER -> {}

\* the text occurs in the response between two quotes
QuotedIn(resp, key) ==
    \E i \in 1..Len(resp) : StartsAt(resp, i, <<"\"">> \o key \o <<"\"">>)

\* a JSON object cut off before its last closing brace
CutOffObjects == UNION { {CutOff(d, n) : n \in 1..(Len(d) - 1)} : d \in ObjectDocs }

\* C4: for a response that is a JSON object cut off before its closing
\* brackets, parse_json_response does not raise; it returns a value built
\* from the prefix, with no key that is absent from the input.
C4_CutOffObjectSalvaged ==
    (Parsed_ /\ response \in CutOffObjects) =>
        /\ ~IsRaise(json_out)
        /\ \A key \in AllKeys(json_out) : QuotedIn(response, key)

\* the places of the response where a fence starts
FenceStarts(resp) == {i \in 1..Len(resp) : StartsAt(resp, i, Fence)}

\* the response has a fenced block: a fence and another one after it
HasFencedBlock(resp) ==
    \E i, j \in FenceStarts(resp) : j >= i + 3

\* the response has a region from an opening brace to a later closing brace
HasBraceRegion(resp) ==
    \E i, j \in 1..Len(resp) : i < j /\ resp[i] = "{" /\ resp[j] = "}"

\* the content of the first fenced block: from the first fence (and its json
\* tag) to the next fence, without the whitespace around it
FirstFencedContent(resp) ==
    LET i == MinOf({k \in FenceStarts(resp) :
                       \E j \in FenceStarts(resp) : j >= k + 3})
        a == IF StartsAt(resp, i + 3, JsonTag) THEN i + 7 ELSE i + 3
        j == MinOf({k \in FenceStarts(resp) : k >= a})
    IN  StripWS(SubSeq(resp, a, j - 1))

\* the region from the first opening brace to the last closing brace
BraceRegion(resp) ==
    SubSeq(resp, MinOf({i \in 1..Len(resp) : resp[i] = "{"}),
                 MaxOf({j \in 1..Len(resp) : resp[j] = "}"}))

\* the JSON text is the first fenced block's when there is one, and only
\* otherwise the region from the first opening to the last closing brace
FencedBlockFirst ==
    Parsed_ =>
        IF HasFencedBlock(response) THEN json_str = S(FirstFencedContent(response))
        ELSE IF HasBraceRegion(response) THEN json_str = S(StripWS(BraceRegion(response)))
        ELSE json_str = None

\* the texts that are valid JSON
ValidDocs == {d \in Docs : ~IsRaise(json_loads(d))}

\* C5: parse_json_response takes its JSON text from the first fenced block
\* (optionally tagged json) when the response has one, and only otherwise from
\* the first opening brace through the last closing brace; a response with
\* prose around a fenced block that holds valid JSON returns exactly the value
\* of that JSON.
C5_FencedJsonReturned ==
    /\ FencedBlockFirst
    /\ Parsed_ =>
         \A d \in ValidDocs, tag \in {<<>>, JsonTag} :
             response = InFence(tag, d) => json_out = json_loads(d)

\* C6: parse_json_response raises the no-JSON-found error if and only if the
\* response has neither a fenced block nor a region from an opening brace to a
\* later closing brace; in every other case it returns a parsed value or raises
\* the repair-failed error, which carries an offset and a tail of the text.
C6_OutcomesOfParse ==
    Parsed_ =>
        IF ~HasFencedBlock(response) /\ ~HasBraceRegion(response)
        THEN json_out = NoJsonFound(response)
        ELSE \/ json_out.t \in {"dict", "list", "int", "str"}
             \/ /\ IsRaise(json_out)
                /\ json_out.err = <<"Failed to parse JSON after repair attempts">>
                /\ json_out.offset = Len(json_str.v)
                /\ \E n \in 0..Len(json_str.v) :
                      /\ json_out.tail = SubSeq(json_str.v, n + 1, Len(json_str.v))
                      /\ Len(json_out.tail) = Min(Len(json_str.v), MaxTail)

\* C6 case: a cut-off object with an opening brace but no closing one and no
\* fence has been given, and the no-JSON-found error is the outcome.
C6_Witness ==
    /\ Parsed_
    /\ response = CutOff(DocNested, Len(DocNested) - 3)
    /\ json_out = NoJsonFound(response)

-----------------------------------------------------------------------------
(* processors/image_filter.py: ImageFilter.  A str is the sequence of its  *)
(* characters; an image is a dict from key to value.                        *)

UpperChars == <<"A", "B", "C", "D", "E", "F", "G", "H", "I", "J", "K", "L", "M",
                "N", "O", "P", "Q", "R", "S", "T", "U", "V", "W", "X", "Y", "Z">>
LowerChars == <<"a", "b", "c", "d", "e", "f", "g", "h", "i", "j", "k", "l", "m",
                "n", "o", "p", "q", "r", "s", "t", "u", "v", "w", "x", "y", "z">>

\* str.lower()
LowerChar(c) ==
    IF \E i \in 1..26 : UpperChars[i] = c
    THEN LowerChars[CHOOSE i \in 1..26 : UpperChars[i] = c]
    ELSE c
StrLower(s) == [i \in 1..Len(s) |-> LowerChar(s[i])]

\* str.endswith(suffix)
EndsWith(s, suffix) ==
    Len(s) >= Len(suffix) /\ SubSeq(s, Len(s) - Len(suffix) + 1, Len(s)) = suffix

\* pattern in s
Contains(s, pattern) == \E i \in 1..(Len(s) - Len(pattern) + 1) : StartsAt(s, i, pattern)

\* Path(p).name: the last component of the path
PathName(p) ==
    LET solid == {i \in 1..Len(p) : p[i] # "/"}
        last == IF solid = {} THEN 0 ELSE MaxOf(solid)
        slashes == {i \in 1..last : p[i] = "/"}
    IN  IF slashes = {} THEN SubSeq(p, 1, last) ELSE SubSeq(p, MaxOf(slashes) + 1, last)

\* Path(p).suffix: from the last dot of the name, unless the name starts or ends with it
PathSuffix(p) ==
    LET name == PathName(p)
        dots == {i \in 1..Len(name) : name[i] = "."}
    IN  IF dots # {} /\ MaxOf(dots) > 1 /\ MaxOf(dots) < Len(name)
        THEN SubSeq(name, MaxOf(dots), Len(name))
        ELSE <<>>

\* str.lstrip('.')
LStripDots(s) ==
    LET keep == {i \in 1..Len(s) : s[i] # "."}
    IN  IF keep = {} THEN <<>> ELSE SubSeq(s, MinOf(keep), Len(s))

\* len(alt.split())
WordCount(s) ==
    Cardinality({i \in 1..Len(s) : s[i] \notin WS /\ (i = 1 \/ s[i - 1] \in WS)})

\* a set of extensions that lets svg through
AllowedWithSvg ==
    {<<"j", "p", "g">>, <<"j", "p", "e", "g">>, <<"p", "n", "g">>, <<"s", "v", "g">>}

\* line 54
allowed_ext == {<<"j", "p", "g">>, <<"j", "p", "e", "g">>, <<"p", "n", "g">>}

\* config.py, IMAGE_FILTER_CONFIG["skip_url_patterns"]
skip_url_patterns ==
    <<<<"i", "c", "n", "-", "c", "l", "o", "s", "e">>,
      <<"i", "c", "n", "-", "n", "a", "v", "-">>,
      <<"i", "c", "n", "-", "c", "a", "r", "o", "u", "s", "e", "l">>,
      <<"r", "l", "c", "d", "n", ".", "c", "o", "m">>,
      <<"a", "n", "a", "l", "y", "t", "i", "c", "s">>,
      <<"b", "a", "t", ".", "b", "i", "n", "g">>,
      <<"t", ".", "c", "o", "/", "i", "/", "a", "d", "s", "c", "t">>,
      <<"f", "a", "c", "e", "b", "o", "o", "k", ".", "c", "o", "m", "/", "t", "r">>,
      <<"g", "o", "o", "g", "l", "e", "a", "d", "s", "e", "r", "v", "i", "c", "e", "s">>,
      <<"d", "o", "u", "b", "l", "e", "c", "l", "i", "c", "k", ".", "n", "e", "t">>>>

\* lines 162-171
tracking_domains ==
    <<<<"r", "l", "c", "d", "n", ".", "c", "o", "m">>,
      <<"a", "n", "a", "l", "y", "t", "i", "c", "s">>,
      <<"b", "a", "t", ".", "b", "i", "n", "g">>,
      <<"t", ".", "c", "o">>,
      <<"f", "a", "c", "e", "b", "o", "o", "k", ".", "c", "o", "m", "/", "t", "r">>,
      <<"g", "o", "o", "g", "l", "e", "a", "d", "s", "e", "r", "v", "i", "c", "e", "s">>,
      <<"d", "o", "u", "b", "l", "e", "c", "l", "i", "c", "k">>,
      <<"p", "i", "x", "e", "l">>>>

\* config.py, IMAGE_FILTER_CONFIG["skip_alt_patterns"]
skip_alt_patterns ==
    <<<<"l", "o", "g", "o">>,
      <<"i", "c", "o", "n">>,
      <<"a", "r", "r", "o", "w">>,
      <<"c", "l", "o", "s", "e">>,
      <<"m", "e", "n", "u">>>>

\* line 189
icon_patterns ==
    <<<<"i", "c", "n", "-">>,
      <<"i", "c", "o", "n", "-">>,
      <<"/", "i", "c", "o", "n", "s", "/">>,
      <<"\\", "i", "c", "o", "n", "s", "\\">>>>

min_width == 50
min_height == 50
min_file_size == 500
IconMaxSide == 100
PixelMaxSide == 2

DotSvg == <<".", "s", "v", "g">>
IconWord == <<" ", "i", "c", "o", "n">>

\* the first of the patterns that matched (by index), 0 when none did
FirstHit(hits) == IF hits = {} THEN 0 ELSE MinOf(hits)

\* x or 0
OrZero(x) == IF Truthy(x) THEN x.v ELSE 0

\* _should_skip, lines 121-197: [reason, pattern], reason None to include
_should_skip(img) ==
    LET width == OrZero(Get(img, "width", None))
        height == OrZero(Get(img, "height", None))
        file_size == Get(img, "file_size", N(0)).v
        src == StrLower(Get(img, "src", S(<<>>)).v)
        alt == StrLower(Get(img, "alt", S(<<>>)).v)
        local_path == StrLower(Get(img, "local_path", S(<<>>)).v)
        dims == <<ToString(width), "x", ToString(height)>>
        url_hit == FirstHit({i \in 1..Len(skip_url_patterns) :
                                Contains(src, StrLower(skip_url_patterns[i]))})
        domain_hit == FirstHit({i \in 1..Len(tracking_domains) :
                                   Contains(src, tracking_domains[i])})
        alt_hit == IF alt # <<>> /\ WordCount(alt) <= 2
                   THEN FirstHit({i \in 1..Len(skip_alt_patterns) :
                                     \/ alt = skip_alt_patterns[i]
                                     \/ alt = skip_alt_patterns[i] \o IconWord})
                   ELSE 0
        path_hit == FirstHit({i \in 1..Len(icon_patterns) :
                                 Contains(local_path, icon_patterns[i])})
    IN  IF EndsWith(local_path, DotSvg) \/ EndsWith(src, DotSvg)
        THEN [reason |-> W("svg_not_supported"),
              pattern |-> <<"SVG format not supported by Vision API">>]
        ELSE IF width <= PixelMaxSide /\ height <= PixelMaxSide
        THEN [reason |-> W("tracking_pixel"), pattern |-> dims]
        ELSE IF width # 0 /\ height # 0 /\ width < min_width /\ height < min_height
        THEN [reason |-> W("tiny_icon"),
              pattern |-> dims \o <<" < ", ToString(min_width), "x", ToString(min_height)>>]
        ELSE IF file_size > 0 /\ file_size < min_file_size
        THEN [reason |-> W("tiny_file"),
              pattern |-> <<ToString(file_size), " < ", ToString(min_file_size), " bytes">>]
        ELSE IF url_hit # 0
        THEN [reason |-> W("ui_pattern"), pattern |-> skip_url_patterns[url_hit]]
        ELSE IF domain_hit # 0
        THEN [reason |-> W("tracking_url"), pattern |-> tracking_domains[domain_hit]]
        ELSE IF alt_hit # 0
        THEN [reason |-> W("alt_pattern"), pattern |-> skip_alt_patterns[alt_hit]]
        ELSE IF path_hit # 0
                /\ ~(width # 0 /\ height # 0 /\ (width > IconMaxSide \/ height > IconMaxSide))
        THEN [reason |-> W("icon_path"), pattern |-> icon_patterns[path_hit]]
        ELSE [reason |-> None, pattern |-> None]

\* schemas.py, SkippedImage
SkippedImage(index, local_path, skip_reason, pattern_matched, dimensions) ==
    [t |-> "SkippedImage", index |-> index, local_path |-> local_path,
     skip_reason |-> skip_reason, pattern_matched |-> pattern_matched,
     dimensions |-> dimensions]

\* schemas.py, FilteredImage
FilteredImage(index, local_path, src, alt, width, height, file_size, file_type) ==
    [t |-> "FilteredImage", index |-> index, local_path |-> local_path, src |-> src,
     alt |-> alt, width |-> width, height |-> height, file_size |-> file_size,
     file_type |-> file_type]

\* self.stats["skipped"] += 1 and the count of the reason, lines 64-65, 79-80, 95-96
CountSkip(stats_, skip_reason) ==
    [stats_ EXCEPT !.skipped = @ + 1,
                   !.skip_reasons = (skip_reason :> (Get(@, skip_reason, 0) + 1)) @@ @]

\* lines 58-59: local_path ('' for none) and file_type of an image
LocalPath(img) ==
    IF Truthy(Get(img, "local_path", None)) THEN Get(img, "local_path", None) ELSE S(<<>>)
FileType(img) ==
    IF Truthy(LocalPath(img))
    THEN StrLower(LStripDots(PathSuffix(LocalPath(img).v))) ELSE <<>>

\* the texts "unknown", "no_src" and "no_extension"
Unknown == <<"u", "n", "k", "n", "o", "w", "n">>
NoSrc == <<"n", "o", "_", "s", "r", "c">>
NoExtension ==
    <<"n", "o", "_", "e", "x", "t", "e", "n", "s", "i", "o", "n">>

\* lines 62-73: an image without local path
SkipMissing(acc, img) ==
    [acc EXCEPT
        !.stats = CountSkip(@, "missing_local_path"),
        !.skipped = Append(@,
            SkippedImage(Get(img, "index", N(0)), S(Unknown),
                W("missing_local_path"),
                S(SubSeq(Get(img, "src", S(NoSrc)).v, 1,
                         Min(Len(Get(img, "src", S(NoSrc)).v), 100))),
                None))]

\* an image that goes to neither list
DropImage(acc, img) == acc

\* lines 76-89: an image without extension or with one that is not allowed
SkipUnsupported(acc, img) ==
    [acc EXCEPT
        !.stats = CountSkip(@, "unsupported_format"),
        !.skipped = Append(@,
            SkippedImage(Get(img, "index", N(0)), LocalPath(img),
                W("unsupported_format"),
                S(IF FileType(img) # <<>> THEN FileType(img) ELSE NoExtension),
                None))]

\* an int or None in an f-string
Format(x) == IF x.t = "None" THEN "None" ELSE ToString(x.v)

\* lines 92-117: the other filters, then skipped or passed
SkipOrPass(acc, img) ==
    LET verdict == _should_skip(img)
    IN  IF Truthy(verdict.reason)
        THEN [acc EXCEPT
                !.stats = CountSkip(@, verdict.reason.v[1]),
                !.skipped = Append(@,
                    SkippedImage(Get(img, "index", N(0)), LocalPath(img),
                        verdict.reason, S(verdict.pattern),
                        IF verdict.reason = W("tracking_pixel")
                        THEN S(<<Format(Get(img, "width", N(0))), "x",
                                 Format(Get(img, "height", N(0)))>>)
                        ELSE None))]
        ELSE [acc EXCEPT
                !.stats = [@ EXCEPT !.passed = @ + 1],
                !.passed = Append(@,
                    FilteredImage(Get(img, "index", N(0)), LocalPath(img),
                        Get(img, "src", S(<<>>)), Get(img, "alt", S(<<>>)),
                        Get(img, "width", None), Get(img, "height", None),
                        Get(img, "file_size", N(0)), S(FileType(img))))]

\* lines 56-117: the body of the loop for one image, on [passed, skipped, stats]
FilterOne(acc, img) ==
    IF ~Truthy(LocalPath(img)) THEN SkipMissing(acc, img)
    ELSE IF FileType(img) = <<>> \/ FileType(img) \notin allowed_ext
    THEN SkipUnsupported(acc, img)
    ELSE SkipOrPass(acc, img)

\* filter_images, lines 33-119: the loop from image i on
RECURSIVE FilterLoop(_, _, _)
FilterLoop(imgs, i, acc) ==
    IF i > Len(imgs) THEN acc
    ELSE FilterLoop(imgs, i + 1, FilterOne(acc, imgs[i].v))

filter_images(imgs) ==
    FilterLoop(imgs, 1,
        [passed |-> <<>>, skipped |-> <<>>,
         stats |-> [total |-> Len(imgs), passed |-> 0, skipped |-> 0,
                    skip_reasons |-> <<>>]])

-----------------------------------------------------------------------------
(* Images given to filter_images: the records of mapping.json as the       *)
(* scraper writes them (src always a str, alt a str or absent, width and   *)
(* height an int, null or absent, local_path a str or null, file_size an   *)
(* int or absent).                                                          *)

MaxImages == 2

\* local_path: null after a failed download, else a path: a.png, A.PNG, b.jpeg, c.jpg, d.gif, e, f.svg, G.SVG, i/h.Svg, .svg, icn-j.png, k/icons/l.jpg, m.svg.png
PathOptions ==
    {[local_path |-> None],
     [local_path |-> S(<<"a", ".", "p", "n", "g">>)],
     [local_path |-> S(<<"A", ".", "P", "N", "G">>)],
     [local_path |-> S(<<"b", ".", "j", "p", "e", "g">>)],
     [local_path |-> S(<<"c", ".", "j", "p", "g">>)],
     [local_path |-> S(<<"d", ".", "g", "i", "f">>)],
     [local_path |-> S(<<"e">>)],
     [local_path |-> S(<<"f", ".", "s", "v", "g">>)],
     [local_path |-> S(<<"G", ".", "S", "V", "G">>)],
     [local_path |-> S(<<"i", "/", "h", ".", "S", "v", "g">>)],
     [local_path |-> S(<<".", "s", "v", "g">>)],
     [local_path |-> S(<<"i", "c", "n", "-", "j", ".", "p", "n", "g">>)],
     [local_path |-> S(<<"k", "/", "i", "c", "o", "n", "s", "/", "l", ".", "j", "p", "g">>)],
     [local_path |-> S(<<"m", ".", "s", "v", "g", ".", "p", "n", "g">>)]}

\* src: x/a.png, x/icn-close.png, X/ANALYTICS, x/pixel, x/q?f=c.svg, t.co/a
SrcOptions ==
    {[src |-> S(<<"x", "/", "a", ".", "p", "n", "g">>)],
     [src |-> S(<<"x", "/", "i", "c", "n", "-", "c", "l", "o", "s", "e", ".", "p", "n", "g">>)],
     [src |-> S(<<"X", "/", "A", "N", "A", "L", "Y", "T", "I", "C", "S">>)],
     [src |-> S(<<"x", "/", "p", "i", "x", "e", "l">>)],
     [src |-> S(<<"x", "/", "q", "?", "f", "=", "c", ".", "s", "v", "g">>)],
     [src |-> S(<<"t", ".", "c", "o", "/", "a">>)]}

\* alt: absent (a background image), or one of: "", "logo", "Logo Icon", "ADP logo"
AltOptions ==
    {EmptyDict,
     [alt |-> S(<<>>)],
     [alt |-> S(<<"l", "o", "g", "o">>)],
     [alt |-> S(<<"L", "o", "g", "o", " ", "I", "c", "o", "n">>)],
     [alt |-> S(<<"A", "D", "P", " ", "l", "o", "g", "o">>)]}

\* width and height: absent, null, or natural sizes
DimOptions ==
    {EmptyDict,
     [width |-> None, height |-> None],
     [width |-> N(1), height |-> N(1)],
     [width |-> N(40), height |-> N(40)],
     [width |-> N(60), height |-> N(60)],
     [width |-> N(40), height |-> N(800)],
     [width |-> N(800), height |-> N(600)]}

\* file_size: absent, below the minimum, above it
SizeOptions == {EmptyDict, [file_size |-> N(300)], [file_size |-> N(5000)]}

\* the image of the given index
Image(index, path, src, alt, dims, size) ==
    D([index |-> N(index)] @@ path @@ src @@ alt @@ dims @@ size)

AllImages(index) ==
    {Image(index, path, src, alt, dims, size) :
        path \in PathOptions, src \in SrcOptions, alt \in AltOptions,
        dims \in DimOptions, size \in SizeOptions}

\* a few images, one per typical outcome, for the longer lists
SomeImages(index) ==
    LET src == [src |-> S(<<"x", "/", "a", ".", "p", "n", "g">>)]
        alt == [alt |-> S(<<"A", "D", "P", " ", "l", "o", "g", "o">>)]
        big == [width |-> N(800), height |-> N(600)]
        size == [file_size |-> N(5000)]
        png == [local_path |-> S(<<"a", ".", "p", "n", "g">>)]
    IN  {Image(index, png, src, alt, big, size),
         Image(index, [local_path |-> None], src, alt, big, EmptyDict),
         Image(index, [local_path |-> S(<<"G", ".", "S", "V", "G">>)], src, alt, big, size),
         Image(index, png, src, EmptyDict, [width |-> N(1), height |-> N(1)], size),
         Image(index, png, [src |-> S(<<"X", "/", "A", "N", "A", "L", "Y", "T", "I", "C", "S">>)],
               alt, big, size),
         Image(index, [local_path |-> S(<<"d", ".", "g", "i", "f">>)], src, alt, big, size)}

\* the lists of n images drawn from SomeImages, indexed from 0
RECURSIVE SomeLists(_)
SomeLists(n) ==
    IF n = 0 THEN {<<>>}
    ELSE {Append(l, img) : l \in SomeLists(n - 1), img \in SomeImages(n - 1)}

ImageLists ==
    {<<img>> : img \in AllImages(0)} \cup UNION {SomeLists(n) : n \in 0..MaxImages}

InitFilter ==
    /\ pc = "filter"
    /\ GenIdle
    /\ JsonIdle
    /\ images \in ImageLists
    /\ passed = <<>>
    /\ skipped = <<>>
    /\ stats = None
    /\ LaterIdle

\* one call of filter_images, then get_stats
FilterImages ==
    /\ pc = "filter"
    /\ pc' = "filtered"
    /\ LET out == filter_images(images)
       IN  /\ passed' = out.passed
           /\ skipped' = out.skipped
           /\ stats' = out.stats
    /\ UNCHANGED <<images, genRest, jsonVars, laterVars>>

NextFilter == FilterImages
SpecFilter == InitFilter /\ [][NextFilter]_vars

-----------------------------------------------------------------------------
(* Properties of filter_images *)

Filtered == pc = "filtered"

SkipReasons ==
    {"missing_local_path", "unsupported_format", "svg_not_supported", "tracking_pixel",
     "tiny_icon", "tiny_file", "ui_pattern", "tracking_url", "alt_pattern", "icon_path"}

\* how many entries of a result list come from the image of the given index
Entries(list, index) == Cardinality({i \in 1..Len(list) : list[i].index = N(index)})

\* C9: filter_images puts every input image in exactly one of passed and
\* skipped (none lost, none in both, the lengths add up to the input's), and
\* every skipped image has a skip_reason that is one of the ten fixed reasons.
C9_FilterPartitions ==
    Filtered =>
        /\ Len(passed) + Len(skipped) = Len(images)
        /\ \A k \in 1..Len(images) :
              Entries(passed, k - 1) + Entries(skipped, k - 1) = 1
        /\ \A i \in 1..Len(passed) : passed[i].t = "FilteredImage"
        /\ \A j \in 1..Len(skipped) :
              /\ skipped[j].t = "SkippedImage"
              /\ skipped[j].skip_reason.t = "str"
              /\ skipped[j].skip_reason.v[1] \in SkipReasons

\* C9 case: a list of two images has been filtered, one passed, one skipped.
C9_Witness ==
    /\ Filtered
    /\ Len(images) = 2
    /\ Len(passed) = 1
    /\ Len(skipped) = 1
    /\ passed[1].index # skipped[1].index

\* the local path of the image ends in .svg, in any letter case
IsSvgPath(img) ==
    /\ Get(img.v, "local_path", None).t = "str"
    /\ EndsWith(StrLower(Get(img.v, "local_path", None).v), DotSvg)

\* C10: an image whose local path ends in .svg (any letter case) is in
\* skipped with skip_reason 'unsupported_format' and not in passed, whatever
\* its dimensions, size, src and alt.
C10_SvgPathUnsupported ==
    Filtered =>
        \A k \in 1..Len(images) :
            IsSvgPath(images[k]) =>
                /\ \E j \in 1..Len(skipped) :
                      /\ skipped[j].index = N(k - 1)
                      /\ skipped[j].skip_reason = W("unsupported_format")
                /\ Entries(passed, k - 1) = 0
                /\ Entries(skipped, k - 1) = 1

\* C10 case: an image with an upper-case .SVG path, large dimensions, a known
\* size, a plain src and a long alt has been filtered as unsupported_format.
C10_Witness ==
    /\ Filtered
    /\ Len(images) = 1
    /\ images[1].v.local_path = S(<<"G", ".", "S", "V", "G">>)
    /\ Get(images[1].v, "width", None) = N(800)
    /\ Get(images[1].v, "file_size", None) = N(5000)
    /\ skipped # <<>>
    /\ skipped[1].skip_reason = W("unsupported_format")

\* the nine checks, in the order the design gives them
CheckOrder ==
    <<"missing_local_path", "unsupported_format", "tracking_pixel", "tiny_icon",
      "tiny_file", "ui_pattern", "tracking_url", "alt_pattern", "icon_path">>

\* the image meets the condition of the named check, taken on its own
Meets(reason, img) ==
    LET width == OrZero(Get(img, "width", None))
        height == OrZero(Get(img, "height", None))
        file_size == Get(img, "file_size", N(0)).v
        src == StrLower(Get(img, "src", S(<<>>)).v)
        alt == StrLower(Get(img, "alt", S(<<>>)).v)
        local_path == StrLower(LocalPath(img).v)
    IN  CASE reason = "missing_local_path" -> ~Truthy(LocalPath(img))
          [] reason = "unsupported_format" ->
                FileType(img) = <<>> \/ FileType(img) \notin allowed_ext
          [] reason = "tracking_pixel" -> width <= PixelMaxSide /\ height <= PixelMaxSide
          [] reason = "tiny_icon" ->
                width # 0 /\ height # 0 /\ width < min_width /\ height < min_height
          [] reason = "tiny_file" -> file_size > 0 /\ file_size < min_file_size
          [] reason = "ui_pattern" ->
                \E i \in 1..Len(skip_url_patterns) :
                    Contains(src, StrLower(skip_url_patterns[i]))
          [] reason = "tracking_url" ->
                \E i \in 1..Len(tracking_domains) : Contains(src, tracking_domains[i])
          [] reason = "alt_pattern" ->
                /\ alt # <<>>
                /\ WordCount(alt) <= 2
                /\ \E i \in 1..Len(skip_alt_patterns) :
                      \/ alt = skip_alt_patterns[i]
                      \/ alt = skip_alt_patterns[i] \o IconWord
          [] reason = "icon_path" ->
                /\ \E i \in 1..Len(icon_patterns) : Contains(local_path, icon_patterns[i])
                /\ ~(width # 0 /\ height # 0 /\ (width > IconMaxSide \/ height > IconMaxSide))
          [] OTHER -> FALSE

\* C11: every skipped image is reported with the reason of the first of the
\* nine checks (missing_local_path, unsupported_format, tracking_pixel,
\* tiny_icon, tiny_file, ui_pattern, tracking_url, alt_pattern, icon_path) that
\* it meets, so that no image is reported with reason 'svg_not_supported'.
C11_FirstCheckInOrder ==
    Filtered =>
        \A j \in 1..Len(skipped) :
            LET img == images[skipped[j].index.v + 1].v
                reason == skipped[j].skip_reason.v[1]
            IN  /\ reason # "svg_not_supported"
                /\ \E k \in 1..Len(CheckOrder) :
                      /\ CheckOrder[k] = reason
                      /\ Meets(reason, img)
                      /\ \A m \in 1..(k - 1) : ~Meets(CheckOrder[m], img)

-----------------------------------------------------------------------------
(* processors/section_parser.py: SectionParser.parse and the section ids *)

\* bound of the model: headings kept by the heading pass of one parse call
MaxHeadings == 3

\* the marks removed by the first substitution, one token each
Marks == {"(R)", "(TM)", "(C)"}

\* \w and \s of the patterns, for the characters of the model
WordChars == {LowerChars[i] : i \in 1..26} \cup {UpperChars[i] : i \in 1..26}
                 \cup Digits \cup {"_"}
SpaceOrHyphen == WS \cup {"-"}

\* re.sub of a negated character class by nothing: the characters of s in the class
RECURSIVE Keep(_, _)
Keep(s, class) ==
    IF s = <<>> THEN <<>>
    ELSE (IF Head(s) \in class THEN <<Head(s)>> ELSE <<>>) \o Keep(Tail(s), class)

\* re.sub of a character class by nothing: the characters of s not in it
RECURSIVE Drop(_, _)
Drop(s, class) ==
    IF s = <<>> THEN <<>>
    ELSE (IF Head(s) \in class THEN <<>> ELSE <<Head(s)>>) \o Drop(Tail(s), class)

\* re.sub(r'[\s-]+', '_', s): every run of spaces and hyphens becomes one underscore
RECURSIVE SubRuns(_)
SubRuns(s) ==
    IF s = <<>> THEN <<>>
    ELSE IF Head(s) \in SpaceOrHyphen
    THEN IF Len(s) > 1 /\ s[2] \in SpaceOrHyphen
         THEN SubRuns(Tail(s))
         ELSE <<"_">> \o SubRuns(Tail(s))
    ELSE <<Head(s)>> \o SubRuns(Tail(s))

\* str.strip('_')
StripUnderscores(s) ==
    LET keep == {i \in 1..Len(s) : s[i] # "_"}
    IN  IF keep = {} THEN <<>> ELSE SubSeq(s, MinOf(keep), MaxOf(keep))

\* s[:n]
Prefix(s, n) == SubSeq(s, 1, IF Len(s) < n THEN Len(s) ELSE n)

\* str(n) of a natural number, as characters
RECURSIVE Decimal(_)
Decimal(n) ==
    LET digit == CHOOSE c \in Digits : DigitValue(c) = n % 10
    IN  IF n < 10 THEN <<digit>> ELSE Decimal(n \div 10) \o <<digit>>

\* the slice length of the slug and the fallback slug
SlugMax == 50
SectionSlug == <<"s", "e", "c", "t", "i", "o", "n">>

\* lines 449-453: the slug of a title
Slug(title) ==
    LET lowered == StrLower(title)
        no_marks == Drop(lowered, Marks)
        words == Keep(no_marks, WordChars \cup SpaceOrHyphen)
        joined == SubRuns(words)
        cut == Prefix(StripUnderscores(joined), SlugMax)
    IN  IF cut = <<>> THEN SectionSlug ELSE cut

\* the same loop leaving after one pass
FirstSuffix(slug, base_id, counter, seen) ==
    IF slug \in seen THEN base_id \o <<"_">> \o Decimal(counter) ELSE slug

\* lines 455-459: the while loop, from the given slug and counter
RECURSIVE FreeSlug(_, _, _, _)
FreeSlug(slug, base_id, counter, seen) ==
    IF slug \in seen
    THEN FreeSlug(base_id \o <<"_">> \o Decimal(counter), base_id, counter + 1, seen)
    ELSE slug

\* SectionParser._generate_unique_id: the id and the set after the call
_generate_unique_id(title, seen) ==
    LET slug == FreeSlug(Slug(title), Slug(title), 1, seen)
    IN  [id |-> slug, seen_ids |-> seen \cup {slug}]

\* ParsedSection, the fields the passes set
ParsedSection(id, title, level, section_type) ==
    [id |-> id, title |-> title, level |-> level, section_type |-> section_type]

\* titles of headings the heading pass keeps (longer than 3 characters, no
\* navigation word): Plan, Plan 1, plan_1, Plan - 1, contact_cta,
\* Testimonials, !!!!, Section, and two that differ after the 50th character
LongTitle(last) == Repeat("a", SlugMax) \o <<last>>
Titles ==
    {<<"P", "l", "a", "n">>,
     <<"P", "l", "a", "n", " ", "1">>,
     <<"p", "l", "a", "n", "_", "1">>,
     <<"P", "l", "a", "n", " ", "-", " ", "1", "(R)">>,
     <<"c", "o", "n", "t", "a", "c", "t", "_", "c", "t", "a">>,
     <<"T", "e", "s", "t", "i", "m", "o", "n", "i", "a", "l", "s">>,
     <<"!", "!", "!", "!">>,
     <<"S", "e", "c", "t", "i", "o", "n">>,
     LongTitle("b"),
     LongTitle("c")}

ContactCta == <<"c", "o", "n", "t", "a", "c", "t", "_", "c", "t", "a">>
TestimonialsTitle == <<"t", "e", "s", "t", "i", "m", "o", "n", "i", "a", "l", "s">>

\* everything but the parser's state and pc
parseRest == <<genRest, jsonVars, filterVars, tableVars, classifyVars, cleanVars, callVars,
              runVars, chunkVars, moreVars>>

InitParse ==
    /\ pc = "headings"
    /\ seen_ids = {}
    /\ parsed_sections = <<>>
    /\ GenIdle
    /\ MoreIdle
    /\ RunIdle
    /\ ChunkIdle
    /\ JsonIdle
    /\ FilterIdle
    /\ TableIdle
    /\ ClassifyIdle
    /\ CleanIdle
    /\ CallIdle

\* _extract_heading_sections, one pass of the loop for a heading that is kept
\* (an h2: the level plays no part in the id)
ExtractHeading ==
    /\ pc = "headings"
    /\ Len(parsed_sections) < MaxHeadings
    /\ \E title \in Titles :
          LET made == _generate_unique_id(title, seen_ids)
          IN  /\ seen_ids' = made.seen_ids
              /\ parsed_sections' =
                    Append(parsed_sections, ParsedSection(made.id, title, 2, "heading"))
    /\ UNCHANGED <<pc, parseRest>>

\* _extract_cta_sections after the heading pass: with or without CTA content
ExtractCta ==
    /\ pc = "headings"
    /\ pc' = "testimonials"
    /\ \E found \in BOOLEAN :
          IF found
          THEN LET made == _generate_unique_id(ContactCta, seen_ids)
               IN  /\ seen_ids' = made.seen_ids
                   /\ parsed_sections' =
                         Append(parsed_sections,
                                ParsedSection(made.id, <<"Contact & CTA Information">>, 2, "cta"))
          ELSE UNCHANGED <<seen_ids, parsed_sections>>
    /\ UNCHANGED parseRest

\* _extract_testimonial_sections, then parse returns
ExtractTestimonials ==
    /\ pc = "testimonials"
    /\ pc' = "outline"
    /\ \E found \in BOOLEAN :
          IF found
          THEN LET made == _generate_unique_id(TestimonialsTitle, seen_ids)
               IN  /\ seen_ids' = made.seen_ids
                   /\ parsed_sections' =
                         Append(parsed_sections,
                                ParsedSection(made.id, <<"Testimonials & Quotes">>, 2,
                                              "testimonial"))
          ELSE UNCHANGED <<seen_ids, parsed_sections>>
    /\ UNCHANGED parseRest

NextParse == ExtractHeading \/ ExtractCta \/ ExtractTestimonials
SpecParse == InitParse /\ [][NextParse]_vars

\* C12: at every point of one parse call, after any sequence of
\* _generate_unique_id calls of the heading, CTA and testimonial passes, the
\* ids of the sections built so far are pairwise distinct.
C12_SectionIdsDistinct ==
    \A i, j \in 1..Len(parsed_sections) :
        i # j => parsed_sections[i].id # parsed_sections[j].id

\* C12 case: the parse has returned with the headings 'Plan', 'plan_1' and
\* 'Plan' again, which got the ids plan, plan_1 and plan_2, and with a CTA
\* section.
C12_Witness ==
    /\ pc = "outline"
    /\ Len(parsed_sections) >= 4
    /\ parsed_sections[1].id = <<"p", "l", "a", "n">>
    /\ parsed_sections[2].title = <<"p", "l", "a", "n", "_", "1">>
    /\ parsed_sections[2].id = <<"p", "l", "a", "n", "_", "1">>
    /\ parsed_sections[3].title = <<"P", "l", "a", "n">>
    /\ parsed_sections[3].id = <<"p", "l", "a", "n", "_", "2">>
    /\ parsed_sections[4].section_type = "cta"

-----------------------------------------------------------------------------
(* processors/section_parser.py: SectionParser._parse_table *)

\* bounds of the model: cells of the header row, rows below it
MaxHeaderCells == 2
MaxBodyRows == 3

\* a cell of a row: its tag name, its stripped text, its first <img> (None:
\* none; else the attributes of the image)
Cell(name, text, img) == [name |-> name, text |-> text, img |-> img]

\* the check mark and the cross, one token each, and the three fixed texts
CheckMark == "(check)"
CrossMark == "(cross)"
YesText == <<CheckMark, " ", "Y", "E", "S">>
NoText == <<CrossMark, " ", "N", "O">>
NotOfferedText == <<CrossMark, " ", "N", "O", "T", " ", "O", "F", "F", "E", "R", "E", "D">>
ColumnText == <<"C", "o", "l", "u", "m", "n">>
CategoryMaxLen == 50

\* lines 346-355: the column text of one <th>, <<>> when it gives none
HeaderText(th) ==
    IF th.img # None /\ th.text = <<>>
    THEN Get(th.img.v, "alt", S(ColumnText)).v
    ELSE th.text

\* table.find_all('th'): the th cells of all rows, in document order
RECURSIVE FindAllTh(_)
FindAllTh(tbl) ==
    IF tbl = <<>> THEN <<>>
    ELSE SelectSeq(Head(tbl), LAMBDA c : c.name = "th") \o FindAllTh(Tail(tbl))

\* lines 346-358: the columns
Columns(tbl) ==
    LET ths == FindAllTh(tbl)
        texts == [i \in 1..Len(ths) |-> HeaderText(ths[i])]
        appended == SelectSeq(texts, LAMBDA c : c # <<>>)
    IN  SelectSeq(appended, LAMBDA c : c # <<>> /\ StripWS(c) # <<>>)

\* lines 372-387: the text of one cell of a row
CellText(cell) ==
    LET alt == IF cell.img = None THEN <<>>
               ELSE StrLower(Get(cell.img.v, "alt", S(<<>>)).v)
        marked ==
            IF cell.img = None THEN cell.text
            ELSE IF \/ Contains(alt, <<"c", "h", "e", "c", "k">>)
                    \/ Contains(alt, <<"o", "f", "f", "e", "r", "e", "d">>)
                    \/ Contains(alt, <<"y", "e", "s">>)
            THEN YesText
            ELSE IF Contains(alt, <<"x">>) \/ Contains(alt, <<"n", "o">>)
            THEN NoText
            ELSE cell.text
    IN  IF Contains(StrLower(marked),
                    <<"n", "o", "t", " ", "o", "f", "f", "e", "r", "e", "d">>)
        THEN NotOfferedText ELSE marked

\* lines 389-395: the row is a category header row
IsCategoryRow(cells, row_data) ==
    /\ Len(row_data) >= 1
    /\ cells[1].name = "th"
    /\ row_data[1] # <<>>
    /\ Len(row_data[1]) < CategoryMaxLen
    /\ ~Contains(row_data[1], <<CheckMark>>)
    /\ ~Contains(row_data[1], <<CrossMark>>)

\* lines 361-401: the loop over the rows, from the state acc of result and
\* current_category
RECURSIVE TableRows(_, _)
TableRows(rows, acc) ==
    IF rows = <<>> THEN acc
    ELSE LET cells == Head(rows)
             row_data == [i \in 1..Len(cells) |-> CellText(cells[i])]
         IN  IF cells = <<>> THEN TableRows(Tail(rows), acc)
             ELSE IF IsCategoryRow(cells, row_data)
             THEN TableRows(Tail(rows),
                     [acc EXCEPT !.current_category = S(row_data[1]),
                                 !.categories = Append(@, row_data[1])])
             ELSE IF \E i \in 1..Len(row_data) : row_data[i] # <<>>
             THEN TableRows(Tail(rows),
                     [acc EXCEPT !.rows = Append(@, [category |-> acc.current_category,
                                                     cells |-> row_data])])
             ELSE TableRows(Tail(rows), acc)

\* SectionParser._parse_table
_parse_table(tbl) ==
    LET done == TableRows(tbl, [rows |-> <<>>, categories |-> <<>>,
                                current_category |-> None])
    IN  [columns |-> Columns(tbl), rows |-> done.rows, categories |-> done.categories]

\* ---- the tables of the model ----
Td(text) == Cell("td", text, None)
Th(text) == Cell("th", text, None)
ImgCell(name, alt) == Cell(name, <<>>, D([alt |-> S(alt)]))

\* header rows of k cells: all with text, or the first one empty, or the
\* first one a logo image
HeaderRows(k) ==
    LET names == <<<<"F", "e", "a", "t", "u", "r", "e">>, <<"P", "l", "a", "n">>>>
        plain == [i \in 1..k |-> Th(names[i])]
    IN  {plain,
         [plain EXCEPT ![1] = Th(<<>>)],
         [plain EXCEPT ![1] = ImgCell("th", <<"L", "o", "g", "o">>)]}

\* rows below the header, for a table of k columns: two category dividers, a
\* row of plain data cells, a row with a check image and a 'Not offered'
\* cell, a row led by a th too long for a category, a row of empty cells,
\* a row without cells
BodyRows(k) ==
    {<<Th(<<"P", "a", "y", "r", "o", "l", "l">>)>>,
     <<Th(<<"H", "R">>)>>,
     [i \in 1..k |-> Td(<<"v", ToString(i)>>)],
     [i \in 1..k |-> IF i = 1 THEN ImgCell("td", <<"C", "h", "e", "c", "k", "e", "d">>)
                     ELSE Td(<<"N", "o", "t", " ", "o", "f", "f", "e", "r", "e", "d">>)],
     [i \in 1..k |-> IF i = 1 THEN Th(Repeat("p", CategoryMaxLen)) ELSE Td(<<"w">>)],
     [i \in 1..k |-> Td(<<>>)],
     <<>>}

RECURSIVE BodyLists(_, _)
BodyLists(k, n) ==
    IF n = 0 THEN {<<>>}
    ELSE BodyLists(k, n - 1)
            \cup {Append(l, row) : l \in {b \in BodyLists(k, n - 1) : Len(b) = n - 1},
                                   row \in BodyRows(k)}

Tables ==
    UNION {{<<header>> \o body : header \in HeaderRows(k), body \in BodyLists(k, MaxBodyRows)} :
              k \in 1..MaxHeaderCells}

tableRest == <<genRest, jsonVars, filterVars, parseVars, classifyVars, cleanVars, callVars,
              runVars, chunkVars, moreVars>>

InitTable ==
    /\ pc = "table"
    /\ table \in Tables
    /\ table_data = None
    /\ GenIdle
    /\ MoreIdle
    /\ RunIdle
    /\ ChunkIdle
    /\ JsonIdle
    /\ FilterIdle
    /\ ParseIdle
    /\ ClassifyIdle
    /\ CleanIdle
    /\ CallIdle

ParseTable ==
    /\ pc = "table"
    /\ pc' = "table_done"
    /\ table_data' = _parse_table(table)
    /\ UNCHANGED <<table, tableRest>>

NextTable == ParseTable
SpecTable == InitTable /\ [][NextTable]_vars

\* ---- C13 ----
\* a category divider: a row of one th cell with a short text and no image
IsDivider(row) ==
    /\ Len(row) = 1
    /\ row[1].name = "th"
    /\ row[1].img = None
    /\ row[1].text # <<>>
    /\ Len(row[1].text) < CategoryMaxLen

\* an ordinary data row: td cells with text
IsDataRow(row) ==
    /\ row # <<>>
    /\ \A i \in 1..Len(row) : row[i].name = "td" /\ row[i].text # <<>>

\* a header row: th cells with text
IsHeaderRow(row) ==
    /\ row # <<>>
    /\ \A i \in 1..Len(row) : row[i].name = "th" /\ row[i].img = None /\ row[i].text # <<>>

\* one header row, then dividers and data rows only
IsPlainTable(tbl) ==
    /\ tbl # <<>>
    /\ IsHeaderRow(tbl[1])
    /\ \A i \in 2..Len(tbl) : IsDivider(tbl[i]) \/ IsDataRow(tbl[i])

Dividers(tbl) == {i \in 2..Len(tbl) : IsDivider(tbl[i])}
DataRows(tbl) == {i \in 2..Len(tbl) : IsDataRow(tbl[i])}

\* C13: for a table of one header row with k header cells, d single-th
\* category dividers and r data rows, _parse_table gives exactly k columns,
\* d categories and r rows; neither the header row nor a divider is in rows
\* and no divider is in columns.
C13_TableCounts ==
    (pc = "table_done" /\ IsPlainTable(table)) =>
        /\ Len(table_data.columns) = Len(table[1])
        /\ Len(table_data.categories) = Cardinality(Dividers(table))
        /\ Len(table_data.rows) = Cardinality(DataRows(table))
        /\ \A i \in 1..Len(table_data.rows) :
              /\ table_data.rows[i].cells[1] # table[1][1].text
              /\ \A j \in Dividers(table) :
                    table_data.rows[i].cells[1] # table[j][1].text
        /\ \A i \in 1..Len(table_data.columns) :
              \A j \in Dividers(table) : table_data.columns[i] # table[j][1].text

-----------------------------------------------------------------------------
(* llm/image_classifier.py: ImageClassifier.classify_batch and classify_all *)

\* bounds of the model: batches of a call, images of a batch, classifications
\* of a reply
MaxBatches == 2
MaxBatchImages == 2
MaxClassifications == 2

\* no category is overridden
NoIncludeCategories == <<>>

\* config.py, INCLUDE_CATEGORIES
INCLUDE_CATEGORIES == <<"product_ui", "feature_icon", "stats_data", "testimonial_photo">>

\* f"img_{index:03d}"
ImageId(index) ==
    LET digits == Decimal(index)
        pad == IF Len(digits) < 3 THEN Repeat("0", 3 - Len(digits)) ELSE <<>>
    IN  <<"i", "m", "g", "_">> \o pad \o digits

IsOptionalStr(x) == x.t \in {"None", "str"}

\* schemas.py, ImageDescription (a ValidationError when a field has the wrong type)
ImageDescription(image_id, local_path, category, description, extracted_text, stats_, suggested_section) ==
    IF /\ image_id.t = "str" /\ local_path.t = "str" /\ category.t = "str"
       /\ description.t = "str"
       /\ IsOptionalStr(extracted_text)
       /\ (stats_ = None \/ (stats_.t = "list" /\ \A i \in 1..Len(stats_.v) : stats_.v[i].t = "dict"))
       /\ IsOptionalStr(suggested_section)
    THEN [t |-> "ImageDescription", image_id |-> image_id, local_path |-> local_path,
          category |-> category, description |-> description,
          extracted_text |-> extracted_text, stats |-> stats_,
          suggested_section |-> suggested_section]
    ELSE Raise("ValidationError")

\* schemas.py, ExcludedImage
ExcludedImage(image_id, local_path, category, exclusion_reason) ==
    IF /\ image_id.t = "str" /\ local_path.t = "str" /\ category.t = "str"
       /\ exclusion_reason.t = "str"
    THEN [t |-> "ExcludedImage", image_id |-> image_id, local_path |-> local_path,
          category |-> category, exclusion_reason |-> exclusion_reason]
    ELSE Raise("ValidationError")

\* the image with that id only: without the search by index of lines 110-113
ExactIdOnly(image_id, imgs) ==
    LET exact == {i \in 1..Len(imgs) :
                     image_id.t = "str" /\ ImageId(imgs[i].index.v) = image_id.v}
    IN  IF exact # {} THEN imgs[MaxOf(exact)]
        ELSE IF image_id.t # "str" THEN Raise("TypeError")
        ELSE None

\* lines 105-117: the image a classification is about: the image with that
\* id, else the first image whose index is written somewhere in the id;
\* None when there is none (the classification is passed over)
MatchImage(image_id, imgs) ==
    LET exact == {i \in 1..Len(imgs) :
                     image_id.t = "str" /\ ImageId(imgs[i].index.v) = image_id.v}
        loose == {i \in 1..Len(imgs) : Contains(image_id.v, Decimal(imgs[i].index.v))}
    IN  IF exact # {} THEN imgs[MaxOf(exact)]
        ELSE IF image_id.t # "str" THEN Raise("TypeError")
        ELSE IF loose # {} THEN imgs[MinOf(loose)]
        ELSE None

\* lines 119-124: the include flag after the override
IncludeFlag(classification) ==
    LET category == Get(classification, "category", W("decorative_other"))
    IN  IF \E i \in 1..Len(INCLUDE_CATEGORIES) : category = W(INCLUDE_CATEGORIES[i])
        THEN B(TRUE)
        ELSE Get(classification, "include", B(FALSE))

\* lines 104-142: the loop over the classifications, on [included, excluded]
RECURSIVE Classify(_, _, _)
Classify(classifications, imgs, acc) ==
    IF classifications = <<>> THEN acc
    ELSE IF Head(classifications).t # "dict" THEN Raise("AttributeError")
    ELSE LET classification == Head(classifications).v
             img == MatchImage(Get(classification, "image_id", S(<<>>)), imgs)
             category == Get(classification, "category", W("decorative_other"))
             description == ImageDescription(
                 S(ImageId(img.index.v)), img.local_path, category,
                 Get(classification, "description", S(<<>>)),
                 Get(classification, "extracted_text", None),
                 Get(classification, "stats", None),
                 Get(classification, "suggested_section", None))
             exclusion == ExcludedImage(
                 S(ImageId(img.index.v)), img.local_path, category,
                 Get(classification, "exclusion_reason", W("Classified as decorative")))
         IN  IF img = None THEN Classify(Tail(classifications), imgs, acc)
             ELSE IF IsRaise(img) THEN img
             ELSE IF Truthy(IncludeFlag(classification))
             THEN IF IsRaise(description) THEN description
                  ELSE Classify(Tail(classifications), imgs,
                                [acc EXCEPT !.included = Append(@, description)])
             ELSE IF IsRaise(exclusion) THEN exclusion
                  ELSE Classify(Tail(classifications), imgs,
                                [acc EXCEPT !.excluded = Append(@, exclusion)])

\* ImageClassifier.classify_batch; outcome is what call_with_images followed
\* by parse_json_response gave: the parsed value, or the exception raised
classify_batch(imgs, outcome) ==
    IF imgs = <<>> THEN [t |-> "tuple", included |-> <<>>, excluded |-> <<>>]
    ELSE IF IsRaise(outcome) THEN outcome
    ELSE IF outcome.t # "dict" THEN Raise("AttributeError")
    ELSE LET classifications == Get(outcome.v, "images", L(<<>>))
         IN  IF classifications.t # "list" THEN Raise("TypeError")
             ELSE Classify(classifications.v, imgs, [t |-> "tuple", included |-> <<>>, excluded |-> <<>>])

\* the images of a batch that raised are left out
NoEntries(batch, e) == <<>>

\* lines 189-195: the entries of a batch whose classification raised
ErrorEntries(batch, e) ==
    [i \in 1..Len(batch) |->
        ExcludedImage(S(ImageId(batch[i].index.v)), batch[i].local_path, W("error"),
                      S(<<"Processing error: ", e.err>>))]

\* sum() of a list of numbers
RECURSIVE Sum(_)
Sum(numbers) == IF numbers = <<>> THEN 0 ELSE Head(numbers) + Sum(Tail(numbers))

\* schemas.py, ProcessingMetadata and ImageDescriptionsOutput, lines 198-210
ImageDescriptionsOutput(batches, included, excluded) ==
    [t |-> "ImageDescriptionsOutput",
     processing_metadata |->
        [batches_processed |-> Len(batches),
         total_images_evaluated |-> Sum([i \in 1..Len(batches) |-> Len(batches[i])]),
         images_included |-> Len(included),
         images_excluded |-> Len(excluded)],
     included_images |-> included,
     excluded_images |-> excluded]

\* ---- the inputs of the model ----
\* the k-th image that passed the filter: indexes 1, 10, 19, ...
PassedImage(k) ==
    FilteredImage(N(9 * k - 8), S(<<"i", "/", ToString(k), ".", "p", "n", "g">>),
                  S(<<"x", "/", ToString(k)>>), S(<<>>), N(800), N(600), N(5000),
                  S(<<"p", "n", "g">>))

\* n images from the k-th on
RunOfImages(k, n) == [i \in 1..n |-> PassedImage(k + i - 1)]

\* the batches batch_images makes of 0..MaxBatches*MaxBatchImages images
BatchesOf(n) ==
    [b \in 1..((n + MaxBatchImages - 1) \div MaxBatchImages) |->
        RunOfImages((b - 1) * MaxBatchImages + 1,
                    IF b * MaxBatchImages <= n THEN MaxBatchImages
                    ELSE n - (b - 1) * MaxBatchImages)]
BatchLists == {BatchesOf(n) : n \in 0..(MaxBatches * MaxBatchImages)}

\* the image_id values of a classification for a batch: the id of its
\* first image, its last image's index in another format, no image's id
IdOptions(batch) ==
    {[image_id |-> S(ImageId(batch[1].index.v))],
     [image_id |-> S(<<"I", "m", "a", "g", "e", " ">> \o Decimal(batch[Len(batch)].index.v))],
     [image_id |-> S(<<"l", "o", "g", "o">>)]}
IncludeOptions == {EmptyDict, [include |-> B(TRUE)], [include |-> B(FALSE)]}
CategoryOptions ==
    {EmptyDict, [category |-> W("product_ui")], [category |-> W("testimonial_photo")],
     [category |-> W("branding")]}

Classifications(batch) ==
    {D(id @@ include @@ category @@ [description |-> W("text")]) :
        id \in IdOptions(batch), include \in IncludeOptions, category \in CategoryOptions}

\* ill-formed members of a reply: a null description, a null image_id, a
\* null category along with include true, a string in place of the object
BadClassifications(batch) ==
    {D([image_id |-> S(ImageId(batch[1].index.v)), include |-> B(FALSE),
        category |-> W("product_ui"), description |-> None]),
     D([image_id |-> None, category |-> W("product_ui")]),
     D([image_id |-> S(ImageId(batch[1].index.v)), include |-> B(TRUE), category |-> None]),
     W("img")}

\* the second classification of a reply of two
SecondClassifications(batch) ==
    {D([image_id |-> S(ImageId(batch[1].index.v)), include |-> B(FALSE),
        category |-> W("branding")]),
     D([image_id |-> S(ImageId(batch[Len(batch)].index.v)), include |-> B(FALSE),
        category |-> W("stats_data")]),
     D([image_id |-> S(ImageId(batch[1].index.v)), include |-> B(TRUE), category |-> None])}

RECURSIVE ReplyLists(_, _)
ReplyLists(batch, n) ==
    IF n = 0 THEN {<<>>}
    ELSE IF n = 1 THEN {<<>>} \cup {<<c>> : c \in Classifications(batch) \cup BadClassifications(batch)}
    ELSE ReplyLists(batch, n - 1)
            \cup {Append(l, c) : l \in {r \in ReplyLists(batch, n - 1) : Len(r) = n - 1},
                                 c \in SecondClassifications(batch)}

\* what the API call and the parse give for a batch: an exception of the
\* call, of the parse, or a parsed value
BatchOutcomes(batch) ==
    {Raise("APIError"), Raise("ValueError"), L(<<>>), D(EmptyDict), D([images |-> None])}
        \cup {D([images |-> L(l)]) : l \in ReplyLists(batch, MaxClassifications)}

classifyRest == <<genRest, jsonVars, filterVars, parseVars, tableVars, cleanVars, callVars,
              runVars, chunkVars, moreVars>>

InitClassify ==
    /\ pc = "classify"
    /\ image_batches \in BatchLists
    /\ batches_done = 0
    /\ all_included = <<>>
    /\ all_excluded = <<>>
    /\ classify_log = <<>>
    /\ classify_out = None
    /\ GenIdle
    /\ MoreIdle
    /\ RunIdle
    /\ ChunkIdle
    /\ JsonIdle
    /\ FilterIdle
    /\ ParseIdle
    /\ TableIdle
    /\ CleanIdle
    /\ CallIdle

\* classify_all, one pass of the loop (lines 171-195)
ClassifyBatch ==
    /\ pc = "classify"
    /\ batches_done < Len(image_batches)
    /\ LET batch == image_batches[batches_done + 1]
       IN  \E outcome \in BatchOutcomes(batch) :
              LET got == classify_batch(batch, outcome)
              IN  /\ IF IsRaise(got)
                     THEN /\ all_excluded' = all_excluded \o ErrorEntries(batch, got)
                          /\ UNCHANGED all_included
                     ELSE /\ all_included' = all_included \o got.included
                          /\ all_excluded' = all_excluded \o got.excluded
                  /\ classify_log' = Append(classify_log,
                         [batch |-> batch, outcome |-> outcome, got |-> got])
    /\ batches_done' = batches_done + 1
    /\ UNCHANGED <<pc, image_batches, classify_out, classifyRest>>

\* classify_all, after the loop (lines 197-210)
ClassifyReturn ==
    /\ pc = "classify"
    /\ batches_done = Len(image_batches)
    /\ pc' = "classified"
    /\ classify_out' = ImageDescriptionsOutput(image_batches, all_included, all_excluded)
    /\ UNCHANGED <<image_batches, batches_done, all_included, all_excluded, classify_log,
                   classifyRest>>

NextClassify == ClassifyBatch \/ ClassifyReturn
SpecClassify == InitClassify /\ [][NextClassify]_vars

\* ---- C14 ----
\* the four categories that are always included
OverrideCategories == {"product_ui", "feature_icon", "stats_data", "testimonial_photo"}

\* the passes in which classify_batch returned its two lists
Returned == {b \in 1..Len(classify_log) : ~IsRaise(classify_log[b].got)}

\* the classifications of the reply of pass b
Reply(b) == classify_log[b].outcome.v.images.v

\* the classifications of pass b that match an image of the batch
Matched(b) ==
    IF "images" \in DOMAIN classify_log[b].outcome.v
    THEN {i \in 1..Len(Reply(b)) :
             MatchImage(Get(Reply(b)[i].v, "image_id", S(<<>>)), classify_log[b].batch) # None}
    ELSE {}

\* the matched classifications of pass b with one of the four categories
Overridden(b) ==
    {i \in Matched(b) :
        /\ Get(Reply(b)[i].v, "category", None).t = "str"
        /\ Get(Reply(b)[i].v, "category", None).v[1] \in OverrideCategories}

Raised == {b \in 1..Len(classify_log) : IsRaise(classify_log[b].got)}

\* the ids of the images of a batch
BatchIds(batch) == {S(ImageId(batch[i].index.v)) : i \in 1..Len(batch)}

\* how many entries the passes (raised ones or returned ones) should have
\* left in a list: per raised pass its images, per returned pass its list
RECURSIVE Expected(_, _)
Expected(b, list) ==
    IF b = 0 THEN 0
    ELSE Expected(b - 1, list)
            + (IF IsRaise(classify_log[b].got)
               THEN (IF list = "excluded" THEN Len(classify_log[b].batch) ELSE 0)
               ELSE Len(classify_log[b].got[list]))

\* C15: when classify_batch raises for a batch, every image of the batch is
\* in the excluded list with category 'error' and none in the included
\* list; the entries of the other batches are all kept; and classify_all
\* returns, without raising, after a pass for every batch in order.
C15_BatchErrorExcluded ==
    /\ \A b \in Raised :
          LET batch == classify_log[b].batch
          IN  /\ \A id \in BatchIds(batch) :
                    Cardinality({k \in 1..Len(all_excluded) :
                                    /\ all_excluded[k].t = "ExcludedImage"
                                    /\ all_excluded[k].image_id = id
                                    /\ all_excluded[k].category = W("error")}) = 1
              /\ \A k \in 1..Len(all_included) : all_included[k].image_id \notin BatchIds(batch)
    /\ \A b \in Returned :
          LET got == classify_log[b].got
          IN  /\ \A k \in 1..Len(got.included) :
                    \E n \in 1..Len(all_included) : all_included[n] = got.included[k]
              /\ \A k \in 1..Len(got.excluded) :
                    \E n \in 1..Len(all_excluded) : all_excluded[n] = got.excluded[k]
    /\ Len(all_included) = Expected(Len(classify_log), "included")
    /\ Len(all_excluded) = Expected(Len(classify_log), "excluded")
    /\ \A b \in 1..Len(classify_log) : classify_log[b].batch = image_batches[b]
    /\ Len(classify_log) = batches_done
    /\ pc = "classified" =>
          /\ batches_done = Len(image_batches)
          /\ classify_out.t = "ImageDescriptionsOutput"
          /\ classify_out.included_images = all_included
          /\ classify_out.excluded_images = all_excluded

\* C15 case: of two batches the first raised (its two images are excluded
\* as errors), the second was classified with an included image, and
\* classify_all returned.
C15_Witness ==
    /\ pc = "classified"
    /\ Len(image_batches) = 2
    /\ Raised = {1}
    /\ classify_log[1].outcome.t = "dict"
    /\ Len(classify_log[1].batch) = 2
    /\ Len(all_included) = 1
    /\ Len(all_excluded) = 2
    /\ all_excluded[1].category = W("error")
    /\ all_excluded[2].category = W("error")

-----------------------------------------------------------------------------
(* processors/html_cleaner.py: HTMLCleaner.clean *)

\* bound of the model: children of the outer element of a document
MaxKids == 2

\* nodes of the parsed document: elements, text and comments
Element(name, attrs, children) ==
    [kind |-> "element", name |-> name, attrs |-> attrs, children |-> children]
Text(chars) == [kind |-> "text", chars |-> chars]
CommentNode == [kind |-> "comment"]
NoAttrs == [a \in {} |-> ""]

\* config.py, HTML_CLEAN_CONFIG
remove_tags_with_content == <<"script", "style", "noscript", "iframe", "head", "meta", "link">>
unwrap_tags == {"span", "font", "center"}
remove_attributes == {"style", "class", "id", "onclick", "onload", "onerror"}
DataAttributes == {"data-x"}
\* line 102
tags_to_remove == <<"nav", "footer", "aside", "noscript">>

\* style values that re.compile(r'display\s*:\s*none', re.I) finds
DisplayNone == {"display:none", "DISPLAY : NONE; color:red"}

AriaHiddenMaxText == 50

\* tag.get_text(strip=True): the stripped strings below the node, joined
RECURSIVE get_text(_)
get_text(node) ==
    IF node.kind = "text" THEN StripWS(node.chars)
    ELSE IF node.kind = "comment" THEN <<>>
    ELSE LET RECURSIVE Join(_)
             Join(kids) == IF kids = <<>> THEN <<>>
                           ELSE get_text(Head(kids)) \o Join(Tail(kids))
         IN  Join(node.children)

\* what soup.find_all(...) selects, by the kind of search
Selected(node, by) ==
    CASE by.find = "name" -> node.kind = "element" /\ node.name = by.name
      [] by.find = "comment" -> node.kind = "comment"
      [] by.find = "hidden" -> node.kind = "element" /\ "hidden" \in DOMAIN node.attrs
      [] by.find = "aria-hidden" ->
            /\ node.kind = "element"
            /\ "aria-hidden" \in DOMAIN node.attrs
            /\ node.attrs["aria-hidden"] = "true"
      [] by.find = "style" ->
            /\ node.kind = "element"
            /\ "style" \in DOMAIN node.attrs
            /\ node.attrs["style"] \in DisplayNone

\* the selected nodes that the loop removes: of the aria-hidden ones only
\* those with a text below 50 characters (lines 125-126)
Removed(node, by) ==
    /\ Selected(node, by)
    /\ by.find = "aria-hidden" => Len(get_text(node)) < AriaHiddenMaxText

\* the number of nodes below the node that a loop counts
RECURSIVE CountRemoved(_, _)
CountRemoved(node, by) ==
    IF node.kind # "element" THEN 0
    ELSE Sum([i \in 1..Len(node.children) |->
                 (IF Removed(node.children[i], by) THEN 1 ELSE 0)
                     + CountRemoved(node.children[i], by)])

\* the node after the loop: decompose() / extract() of every removed node
RECURSIVE Decompose(_, _)
Decompose(node, by) ==
    IF node.kind # "element" THEN node
    ELSE LET kept == SelectSeq(node.children, LAMBDA c : ~Removed(c, by))
         IN  [node EXCEPT !.children = [i \in 1..Len(kept) |-> Decompose(kept[i], by)]]

\* one find_all loop: the tree after it and the count added to a counter
Loop(acc, by, counter) ==
    [tree |-> Decompose(acc.tree, by),
     stats |-> [acc.stats EXCEPT ![counter] = @ + CountRemoved(acc.tree, by)]]

ByName(name) == [find |-> "name", name |-> name]

\* _remove_tags_with_content, lines 75-87
RECURSIVE _remove_tags_with_content(_, _)
_remove_tags_with_content(acc, names) ==
    IF names = <<>> THEN acc
    ELSE _remove_tags_with_content(
            Loop(acc, ByName(Head(names)),
                 IF Head(names) = "script" THEN "scripts"
                 ELSE IF Head(names) = "style" THEN "styles" ELSE "other_removed"),
            Tail(names))

\* _remove_comments, lines 89-94
_remove_comments(acc) == Loop(acc, [find |-> "comment"], "comments")

\* _remove_by_tag_name, lines 96-112
RECURSIVE _remove_by_tag_name(_, _)
_remove_by_tag_name(acc, names) ==
    IF names = <<>> THEN acc
    ELSE _remove_by_tag_name(
            Loop(acc, ByName(Head(names)),
                 IF Head(names) = "nav" THEN "nav_elements"
                 ELSE IF Head(names) = "footer" THEN "footer_elements" ELSE "other_removed"),
            Tail(names))

\* the three loops, in the order of the code
HiddenLoops == <<"hidden", "aria-hidden", "style">>

\* _remove_hidden_elements, lines 114-133
RECURSIVE RemoveHidden(_, _)
RemoveHidden(acc, loops) ==
    IF loops = <<>> THEN acc
    ELSE RemoveHidden(Loop(acc, [find |-> Head(loops)], "hidden_elements"), Tail(loops))
_remove_hidden_elements(acc) == RemoveHidden(acc, HiddenLoops)

\* _clean_attributes, lines 135-152
RECURSIVE _clean_attributes(_)
_clean_attributes(node) ==
    IF node.kind # "element" THEN node
    ELSE LET keep == {a \in DOMAIN node.attrs : a \notin remove_attributes \cup DataAttributes}
         IN  [node EXCEPT
                !.attrs = [a \in keep |-> node.attrs[a]],
                !.children = [i \in 1..Len(@) |-> _clean_attributes(@[i])]]

\* _unwrap_tags, lines 154-160: the children of a node with span, font and
\* center replaced by what they hold
RECURSIVE Unwrapped(_)
Unwrapped(kids) ==
    IF kids = <<>> THEN <<>>
    ELSE LET kid == Head(kids)
         IN  (IF kid.kind # "element" THEN <<kid>>
              ELSE IF kid.name \in unwrap_tags THEN Unwrapped(kid.children)
              ELSE <<[kid EXCEPT !.children = Unwrapped(@)]>>) \o Unwrapped(Tail(kids))
_unwrap_tags(node) == [node EXCEPT !.children = Unwrapped(@)]

\* re.sub(r' +', ' ', html) on the characters of a text: a space that is
\* followed by a space goes
CollapseSpaces(chars) ==
    LET keep == {i \in 1..Len(chars) :
                    ~(chars[i] = " " /\ i < Len(chars) /\ chars[i + 1] = " ")}
    IN  [k \in 1..Cardinality(keep) |->
            chars[CHOOSE i \in keep : Cardinality({j \in keep : j <= i}) = k]]

\* str(body) through _clean_whitespace (lines 162-174), as the parser reads
\* it back: neighbouring strings are one string, runs of spaces one space
\* (the documents of the model are written on one line)
RECURSIVE Reparsed(_)
Reparsed(kids) ==
    IF kids = <<>> THEN <<>>
    ELSE LET kid == Head(kids)
             rest == Reparsed(Tail(kids))
         IN  IF kid.kind = "text"
             THEN IF rest # <<>> /\ rest[1].kind = "text"
                  THEN <<Text(CollapseSpaces(kid.chars \o rest[1].chars))>> \o Tail(rest)
                  ELSE <<Text(CollapseSpaces(kid.chars))>> \o rest
             ELSE IF kid.kind = "element"
             THEN <<[kid EXCEPT !.children = Reparsed(@)]>> \o rest
             ELSE <<kid>> \o rest
_clean_whitespace(body) == [body EXCEPT !.children = Reparsed(@)]

\* __init__, lines 21-29
NoStats ==
    [scripts |-> 0, styles |-> 0, comments |-> 0, hidden_elements |-> 0,
     nav_elements |-> 0, footer_elements |-> 0, other_removed |-> 0]

\* HTMLCleaner.clean on the parsed body: the cleaned body and the stats
clean(body) ==
    LET step1 == _remove_tags_with_content([tree |-> body, stats |-> NoStats],
                                           remove_tags_with_content)
        step2 == _remove_comments(step1)
        step3 == _remove_by_tag_name(step2, tags_to_remove)
        step4 == _remove_hidden_elements(step3)
        step5 == _clean_attributes(step4.tree)
        step6 == _unwrap_tags(step5)
    IN  [body |-> _clean_whitespace(step6), stats |-> step4.stats]

\* ---- the documents of the model ----
\* texts of 10 and of 45 characters, and one of 50 that has a double space
ShortText == Text(Repeat("a", 10))
LongText == Text(Repeat("b", 45))
SpacedText == Text(Repeat("c", 24) \o <<" ", " ">> \o Repeat("c", 24))

AttrOptions ==
    {NoAttrs, [hidden |-> ""], [class |-> "x"],
     "aria-hidden" :> "true", "aria-hidden" :> "false",
     [style |-> "display:none"], [style |-> "DISPLAY : NONE; color:red"],
     [style |-> "color:red"], "data-x" :> "1"}

InnerAttrOptions ==
    {NoAttrs, [hidden |-> ""], "aria-hidden" :> "true", [style |-> "display:none"]}

Leaves ==
    {ShortText, LongText, SpacedText, CommentNode,
     Element("script", NoAttrs, <<Text(<<"j", "s">>)>>)}

InnerElements ==
    {Element(name, attrs, <<text>>) :
        name \in {"div", "span"}, attrs \in InnerAttrOptions, text \in {ShortText, LongText}}
        \cup {Element("nav", NoAttrs, <<ShortText>>),
              Element("footer", NoAttrs, <<ShortText>>)}

RECURSIVE KidLists(_)
KidLists(n) ==
    IF n = 0 THEN {<<>>}
    ELSE KidLists(n - 1)
            \cup {Append(l, kid) : l \in {k \in KidLists(n - 1) : Len(k) = n - 1},
                                   kid \in Leaves \cup InnerElements}

\* a body holding one div
Documents ==
    {Element("body", NoAttrs, <<Element("div", attrs, kids)>>) :
        attrs \in AttrOptions, kids \in KidLists(MaxKids)}

cleanRest == <<genRest, jsonVars, filterVars, parseVars, tableVars, classifyVars, callVars,
              runVars, chunkVars, moreVars>>

InitClean ==
    /\ pc = "clean"
    /\ html_doc \in Documents
    /\ cleaned = None
    /\ recleaned = None
    /\ GenIdle
    /\ MoreIdle
    /\ RunIdle
    /\ ChunkIdle
    /\ JsonIdle
    /\ FilterIdle
    /\ ParseIdle
    /\ TableIdle
    /\ ClassifyIdle
    /\ CallIdle

\* clean(html)
Clean ==
    /\ pc = "clean"
    /\ pc' = "cleaned"
    /\ cleaned' = clean(html_doc)
    /\ UNCHANGED <<html_doc, recleaned, cleanRest>>

\* clean(the cleaned html of the first call)
CleanAgain ==
    /\ pc = "cleaned"
    /\ pc' = "recleaned"
    /\ recleaned' = clean(cleaned.body)
    /\ UNCHANGED <<html_doc, cleaned, cleanRest>>

NextClean == Clean \/ CleanAgain
SpecClean == InitClean /\ [][NextClean]_vars

\* C16: cleaning the cleaned body a second time removes nothing: every
\* counter of the second call's stats is zero, for every input document.
C16_CleanIdempotent ==
    pc = "recleaned" => recleaned.stats = NoStats

-----------------------------------------------------------------------------
(* llm/client.py: ClaudeClient.call_text_only and call_with_images *)

\* bound of the model: the largest max_retries a client is built with
MaxRetriesBound == 3

\* what one messages.create request gives: a response with a text, a
\* response without content, a RateLimitError, another APIError
ApiOutcomes == {"text", "no_content", "RateLimitError", "APIError"}

\* the loop falling through to the end of the function
FallThrough == [pc |-> "returned", result |-> None]

\* line 230 / 303: after the loop
AfterLoop == [pc |-> "raised", result |-> Raise("Exception")]

\* lines 205-228 / 278-301: one pass of the retry loop for the given
\* outcome of the request; where the call stands after it
Attempt(outcome, attempt_, max_retries_) ==
    CASE outcome = "text" -> [pc |-> "returned", result |-> W("text")]
      [] outcome = "no_content" -> [pc |-> "raised", result |-> Raise("IndexError")]
      [] outcome = "RateLimitError" -> [pc |-> "calling", result |-> None]
      [] outcome = "APIError" ->
            IF attempt_ < max_retries_ - 1
            THEN [pc |-> "calling", result |-> None]
            ELSE [pc |-> "raised", result |-> Raise("APIError")]

callRest == <<genRest, jsonVars, filterVars, parseVars, tableVars, classifyVars, cleanVars,
              runVars, chunkVars, moreVars>>

InitCall ==
    /\ pc = "calling"
    /\ call_kind \in {"call_text_only", "call_with_images"}
    /\ max_retries \in 0..MaxRetriesBound
    /\ attempt = 0
    /\ api_log = <<>>
    /\ call_result = None
    /\ GenIdle
    /\ MoreIdle
    /\ RunIdle
    /\ ChunkIdle
    /\ JsonIdle
    /\ FilterIdle
    /\ ParseIdle
    /\ TableIdle
    /\ ClassifyIdle
    /\ CleanIdle

\* one pass of `for attempt in range(self.max_retries)`
Request ==
    /\ pc = "calling"
    /\ attempt < max_retries
    /\ \E outcome \in ApiOutcomes :
          LET after == Attempt(outcome, attempt, max_retries)
          IN  /\ pc' = after.pc
              /\ call_result' = after.result
              /\ api_log' = Append(api_log, outcome)
    /\ attempt' = attempt + 1
    /\ UNCHANGED <<call_kind, max_retries, callRest>>

\* the loop is over without a return or a raise
Exhausted ==
    /\ pc = "calling"
    /\ attempt >= max_retries
    /\ pc' = AfterLoop.pc
    /\ call_result' = AfterLoop.result
    /\ UNCHANGED <<call_kind, max_retries, attempt, api_log, callRest>>

NextCall == Request \/ Exhausted
SpecCall == InitCall /\ [][NextCall]_vars
\* the interpreter goes on with the loop: a sleep ends, a request is answered
SpecCallFair == SpecCall /\ WF_vars(NextCall)

\* the call has ended
CallEnded == pc \in {"returned", "raised"}

\* what holds of a call at every moment
CallSafe ==
    /\ Len(api_log) <= max_retries
    /\ pc = "returned" =>
          /\ call_result = W("text")
          /\ api_log # <<>>
          /\ api_log[Len(api_log)] = "text"
          /\ \A i \in 1..(Len(api_log) - 1) : api_log[i] \in {"RateLimitError", "APIError"}
    /\ pc = "raised" => IsRaise(call_result)
    /\ pc = "calling" => call_result = None

\* C17: a call_text_only / call_with_images invocation makes at most
\* max_retries requests, and it ends: either it returns the text of the
\* first successful response or it raises; it never returns without a
\* response, whatever the sequence of rate-limit and API errors and
\* whatever max_retries >= 0.
C17_CallEnds == []CallSafe /\ <>CallEnded

\* C17 case: with max_retries 3, a rate-limit error and an API error were
\* followed by a successful response, whose text the call returned.
C17_Witness ==
    /\ pc = "returned"
    /\ max_retries = 3
    /\ api_log = <<"RateLimitError", "APIError", "text">>
    /\ call_result = W("text")

-----------------------------------------------------------------------------
(* main.py: process_all_folders, process_with_rate_limit_retry and the     *)
(* ProgressReport they write.  A folder name and an error message are the  *)
(* sequences of their characters.                                           *)

MaxFolders == 3
RunMaxRetries == 3

\* the name of the k-th folder of the DOM folder that holds both input files,
\* in sorted order
FolderName(k) ==
    IF k = 1 THEN <<"c", "o", "r", "p", "o", "r", "a", "t", "e">>
    ELSE <<"p", "a", "g", "e", "_", ToString(k)>>

\* the dict process returns
ProcessResult == [sections |-> 2, images_included |-> 1]

\* an exception object: its class and str(e)
Exc(type, message) == [type |-> type, message |-> message]

NoDomFile(folder) == <<"No *_dom.html file found in ">> \o folder
NoMappingFile(folder) == <<"No *_mapping.json file found in ">> \o folder
Code429 == <<"Error code: ", "4", "2", "9">>
TimedOut == <<"Request ", "t", "i", "m", "e", "d", " ", "o", "u", "t">>
MaxTokens == <<"m", "a", "x", "_", "t", "o", "k", "e", "n", "s", " exceeded">>

\* what extractor.process can do with a folder: return its dict, or raise
\* (the input files can be gone since discover_folders saw them)
ProcessOutcomes(folder) ==
    {D(ProcessResult),
     Raise(Exc("FileNotFoundError", NoDomFile(folder))),
     Raise(Exc("FileNotFoundError", NoMappingFile(folder))),
     Raise(Exc("RateLimitError", Code429)),
     Raise(Exc("APITimeoutError", TimedOut)),
     Raise(Exc("ValueError", MaxTokens))}

\* the test of process_with_rate_limit_retry on str(e).lower()
IsRateLimit(message) ==
    LET error_str == StrLower(message)
    IN  \/ Contains(error_str, <<"r", "a", "t", "e">>)
        \/ Contains(error_str, <<"l", "i", "m", "i", "t">>)
        \/ Contains(error_str, <<"4", "2", "9">>)
        \/ Contains(error_str, <<"t", "o", "k", "e", "n">>)

\* data["folders"][folder_name] = entry
SetFolder(data, folder_name, entry) ==
    [name \in (DOMAIN data) \cup {folder_name} |->
        IF name = folder_name THEN entry ELSE data[name]]

FolderEntry(status, error, result) ==
    [status |-> status, error |-> error, result |-> result]

is_processed(data, folder_name) ==
    folder_name \in DOMAIN data /\ data[folder_name].status = "success"

mark_started(data, folder_name) ==
    SetFolder(data, folder_name, FolderEntry("processing", None, None))

mark_success(data, folder_name, result) ==
    SetFolder(data, folder_name,
              FolderEntry("success", None,
                          [sections |-> result.sections,
                           images_included |-> result.images_included]))

mark_failed(data, folder_name, error) ==
    SetFolder(data, folder_name, FolderEntry("failed", S(error), None))

mark_skipped(data, folder_name, reason) ==
    SetFolder(data, folder_name, FolderEntry("skipped", S(reason), None))

\* a handler that records nothing
OnlyPrinted(data, folder_name, e) == data

\* the except clauses of the loop body
Handled(data, folder_name, e) ==
    IF e.type = "FileNotFoundError"
    THEN mark_skipped(data, folder_name, e.message)
    ELSE mark_failed(data, folder_name, e.message)

\* the entries a report of an earlier run can hold for a folder
EarlierEntries ==
    {FolderEntry("success", None, ProcessResult),
     FolderEntry("failed", S(TimedOut), None),
     FolderEntry("processing", None, None)}

EarlierReports ==
    UNION {[names -> EarlierEntries] :
              names \in SUBSET {FolderName(k) : k \in 1..MaxFolders}}

runRest == <<genRest, jsonVars, filterVars, parseVars, tableVars, classifyVars, cleanVars,
             callVars, chunkVars, moreVars>>

InitRun ==
    /\ pc = "run"
    /\ \E n \in 0..MaxFolders : folders = [k \in 1..n |-> FolderName(k)]
    /\ skip_processed \in BOOLEAN
    /\ report_data \in EarlierReports
    /\ folder_i = 0
    /\ run_attempt = 0
    /\ run_log = <<>>
    /\ GenIdle
    /\ MoreIdle
    /\ JsonIdle
    /\ FilterIdle
    /\ ParseIdle
    /\ TableIdle
    /\ ClassifyIdle
    /\ CleanIdle
    /\ CallIdle
    /\ ChunkIdle

\* a pass of the loop for a folder that was already processed
SkipProcessed ==
    /\ pc = "run"
    /\ folder_i < Len(folders)
    /\ skip_processed /\ is_processed(report_data, folders[folder_i + 1])
    /\ folder_i' = folder_i + 1
    /\ run_log' = Append(run_log, [folder |-> folders[folder_i + 1], got |-> None])
    /\ UNCHANGED <<pc, folders, skip_processed, report_data, run_attempt, runRest>>

\* report.mark_started(folder_name) and the entry into the try block
MarkStarted ==
    /\ pc = "run"
    /\ folder_i < Len(folders)
    /\ ~(skip_processed /\ is_processed(report_data, folders[folder_i + 1]))
    /\ report_data' = mark_started(report_data, folders[folder_i + 1])
    /\ run_attempt' = 0
    /\ pc' = "processing"
    /\ UNCHANGED <<folders, skip_processed, folder_i, run_log, runRest>>

\* one pass of `for attempt in range(max_retries)` of
\* process_with_rate_limit_retry, with what follows it in the loop body of
\* process_all_folders when the pass returns or raises
ProcessFolder ==
    /\ pc = "processing"
    /\ run_attempt < RunMaxRetries
    /\ LET folder_name == folders[folder_i + 1]
       IN  \E got \in ProcessOutcomes(folder_name) :
              IF IsRaise(got) /\ IsRateLimit(got.err.message)
                              /\ run_attempt < RunMaxRetries - 1
              THEN /\ run_attempt' = run_attempt + 1
                   /\ UNCHANGED <<pc, report_data, folder_i, run_log>>
              ELSE /\ report_data' =
                          IF IsRaise(got)
                          THEN Handled(report_data, folder_name, got.err)
                          ELSE mark_success(report_data, folder_name, got.v)
                   /\ run_log' = Append(run_log, [folder |-> folder_name, got |-> got])
                   /\ folder_i' = folder_i + 1
                   /\ pc' = "run"
                   /\ UNCHANGED run_attempt
    /\ UNCHANGED <<folders, skip_processed, runRest>>

\* `if not folders: return`, or the loop is over
RunEnd ==
    /\ pc = "run"
    /\ folder_i = Len(folders)
    /\ pc' = "run_done"
    /\ UNCHANGED <<runVars, runRest>>

NextRun == SkipProcessed \/ MarkStarted \/ ProcessFolder \/ RunEnd
SpecRun == InitRun /\ [][NextRun]_vars

\* the entry the report holds for the folder of an ended pass
Recorded(k) == report_data[run_log[k].folder]

\* the passes that ended with an exception
Excepted == {k \in 1..Len(run_log) : IsRaise(run_log[k].got)}

\* C18: in process_all_folders an exception raised while processing one
\* folder never stops the run: the folder is recorded as 'skipped' when the
\* required input files are missing and as 'failed' with the error message
\* otherwise, every later folder is still attempted in order, and when the
\* run ends no folder attempted in it is left with status 'processing'.
C18_RunSurvivesExceptions ==
    /\ Len(run_log) = folder_i
    /\ \A k \in 1..Len(run_log) : run_log[k].folder = folders[k]
    /\ \A k \in Excepted :
          LET e == run_log[k].got.err
          IN  /\ Recorded(k).status =
                    IF e.type = "FileNotFoundError" THEN "skipped" ELSE "failed"
              /\ Recorded(k).error = S(e.message)
    /\ pc = "run_done" =>
          /\ folder_i = Len(folders)
          /\ \A k \in 1..Len(folders) : report_data[folders[k]].status # "processing"

\* C18 case: the run over three folders has ended; the first folder's input
\* file was gone, the second failed with a timeout, the third was processed.
C18_Witness ==
    /\ pc = "run_done"
    /\ Len(folders) = 3
    /\ run_log[1].got = Raise(Exc("FileNotFoundError", NoDomFile(folders[1])))
    /\ run_log[2].got = Raise(Exc("APITimeoutError", TimedOut))
    /\ run_log[3].got = D(ProcessResult)
    /\ report_data[folders[1]].status = "skipped"
    /\ report_data[folders[2]].status = "failed"
    /\ report_data[folders[3]].status = "success"

-----------------------------------------------------------------------------
(* processors/image_filter.py: ImageFilter.batch_images.                    *)

MaxBatchInput == 12
MaxBatchSize == 11
MaxNegativeSize == 2

\* config.py
IMAGE_BATCH_SIZE == 10

\* list(range(start, stop, step)) for a step other than 0
RangeList(start, stop, step) ==
    LET count == IF step > 0
                 THEN (IF stop > start THEN (stop - start + step - 1) \div step ELSE 0)
                 ELSE (IF start > stop THEN (start - stop - step - 1) \div (0 - step) ELSE 0)
    IN  [k \in 1..count |-> start + (k - 1) * step]

\* a bound of a slice of a list of n elements
SliceBound(x, n) ==
    IF x < 0 THEN (IF x + n < 0 THEN 0 ELSE x + n) ELSE Min(x, n)

\* list[lo:hi]
Slice(list, lo, hi) ==
    SubSeq(list, SliceBound(lo, Len(list)) + 1, SliceBound(hi, Len(list)))

batch_images(imgs, batch_size) ==
    LET size == IF Truthy(batch_size) THEN batch_size.v ELSE IMAGE_BATCH_SIZE
        starts == RangeList(0, Len(imgs), size)
    IN  [b \in 1..Len(starts) |-> Slice(imgs, starts[b], starts[b] + size)]

\* the batch_size arguments: left out, 0, positive and negative numbers
BatchSizes ==
    {None} \cup {N(size) : size \in 0..MaxBatchSize}
           \cup {N(0 - size) : size \in 1..MaxNegativeSize}

chunkRest == <<genRest, jsonVars, filterVars, parseVars, tableVars, classifyVars, cleanVars,
               callVars, runVars, moreVars>>

InitChunk ==
    /\ pc = "batch"
    /\ \E n \in 0..MaxBatchInput : batch_input = RunOfImages(1, n)
    /\ batch_size_arg \in BatchSizes
    /\ batch_result = None
    /\ GenIdle
    /\ MoreIdle
    /\ JsonIdle
    /\ FilterIdle
    /\ ParseIdle
    /\ TableIdle
    /\ ClassifyIdle
    /\ CleanIdle
    /\ CallIdle
    /\ RunIdle

BatchImages ==
    /\ pc = "batch"
    /\ batch_result' = batch_images(batch_input, batch_size_arg)
    /\ pc' = "batched"
    /\ UNCHANGED <<batch_input, batch_size_arg, chunkRest>>

NextChunk == BatchImages
SpecChunk == InitChunk /\ [][NextChunk]_vars

\* the batches joined in order
RECURSIVE Joined(_)
Joined(lists) == IF lists = <<>> THEN <<>> ELSE Head(lists) \o Joined(Tail(lists))

\* the batch size the call was given, the default when it was left out
GivenSize == IF batch_size_arg = None THEN IMAGE_BATCH_SIZE ELSE batch_size_arg.v

\* C19: batch_images(images, batch_size) returns contiguous chunks in input
\* order whose concatenation equals images: no batch is empty, every batch
\* but the last has exactly batch_size elements, the last has between 1 and
\* batch_size, and no element is added, dropped or repeated, for every list
\* and every batch_size the caller may pass.
C19_BatchesPartition ==
    pc = "batched" =>
        /\ Joined(batch_result) = batch_input
        /\ \A b \in 1..Len(batch_result) :
              /\ Len(batch_result[b]) >= 1
              /\ Len(batch_result[b]) <= GivenSize
              /\ b < Len(batch_result) => Len(batch_result[b]) = GivenSize

-----------------------------------------------------------------------------
(* llm/kb_generator.py: what _flatten_grouped_sections made of the groups   *)
(* of generate.                                                             *)

\* the list the batches were cut from
FlatList == Joined(section_batches)

\* the children of the i-th group
ChildrenOf(i) ==
    IF "children" \in DOMAIN grouped_sections[i].v
    THEN grouped_sections[i].v["children"].v
    ELSE <<>>

\* the place of the i-th group in the flat list
PlaceOf(i) == i + Sum([j \in 1..(i - 1) |-> Len(ChildrenOf(j))])

\* C20: _flatten_grouped_sections returns one entry per group followed
\* immediately by one entry per child of that group, in order, so its length
\* is the number of groups plus the number of children; each child entry
\* carries parent_id equal to its parent's id and level equal to the parent's
\* level + 1, and no entry keeps a 'children' key.
C20_FlattenedGroups ==
    grouped_sections # <<>> =>
        /\ Len(FlatList) = PlaceOf(Len(grouped_sections) + 1) - 1
        /\ \A e \in 1..Len(FlatList) : "children" \notin DOMAIN FlatList[e].v
        /\ \A i \in 1..Len(grouped_sections) :
              LET group == grouped_sections[i].v
                  entry == FlatList[PlaceOf(i)].v
              IN  /\ DOMAIN entry = DOMAIN group \ {"children"}
                  /\ \A key \in DOMAIN entry : entry[key] = group[key]
                  /\ \A c \in 1..Len(ChildrenOf(i)) :
                        LET child == ChildrenOf(i)[c].v
                            child_copy == FlatList[PlaceOf(i) + c].v
                        IN  /\ child_copy["parent_id"] = group["id"]
                            /\ child_copy["level"] = N(group["level"].v + 1)
                            /\ DOMAIN child_copy = DOMAIN child \cup {"parent_id", "level"}
                            /\ \A key \in DOMAIN child \ {"parent_id", "level"} :
                                  child_copy[key] = child[key]

\* C20 case: a parent of two children is followed by another group, and the
\* batches of the four flattened sections are being extracted.
C20_Witness ==
    /\ pc = "extract"
    /\ Len(grouped_sections) = 2
    /\ Len(ChildrenOf(1)) = 2
    /\ Len(FlatList) = 4
    /\ FlatList[3].v["parent_id"] = grouped_sections[1].v["id"]

-----------------------------------------------------------------------------
(* llm/kb_generator.py: the batches of generate and their LLM calls.        *)

\* the extraction calls issued so far
ExtractCalls == Len(SelectSeq(llm_calls, LAMBDA call : call = "extract"))

\* the batches are contiguous chunks of at most SECTIONS_PER_BATCH of the
\* flattened groups: ceil(n / 4) of them, every section in exactly one
BatchesCut ==
    grouped_sections # <<>> =>
        LET flat == _flatten_grouped_sections(grouped_sections).v
            n == Len(flat)
        IN  /\ Len(section_batches) = (n + SECTIONS_PER_BATCH - 1) \div SECTIONS_PER_BATCH
            /\ Joined(section_batches) = flat
            /\ \A b \in 1..Len(section_batches) :
                  /\ Len(section_batches[b]) >= 1
                  /\ Len(section_batches[b]) <= SECTIONS_PER_BATCH

\* one call per batch processed, none before the batches exist
CallsMatchBatches ==
    /\ ExtractCalls = batch_i
    /\ ExtractCalls = Len(batch_log)
    /\ ExtractCalls <= Len(section_batches)
    /\ pc = "done" => ExtractCalls = Len(section_batches)

\* a step that issues an extraction call is the step of the next batch, and
\* no step goes back to an earlier batch
CallStep ==
    /\ batch_i' >= batch_i
    /\ llm_calls' # llm_calls /\ pc = "extract" =>
          /\ llm_calls' = Append(llm_calls, "extract")
          /\ batch_i' = batch_i + 1
          /\ section_batches' = section_batches

\* C21: generate cuts the flattened list of n sections into ceil(n/4)
\* contiguous batches of at most 4 and issues exactly one extraction LLM call
\* per batch, in batch order; a batch whose call fails is never called again,
\* and each section is scheduled in exactly one batch.
C21_OneCallPerBatch == [](BatchesCut /\ CallsMatchBatches) /\ [][CallStep]_vars

\* C21 case: five or more sections made two batches; the call of the first
\* batch failed, the call of the second followed, and generate returned.
C21_Witness ==
    /\ pc = "done"
    /\ Len(section_batches) = 2
    /\ Len(section_batches[1]) = 4
    /\ batch_log[1].raised
    /\ ~batch_log[2].raised
    /\ ExtractCalls = 2

-----------------------------------------------------------------------------
(* llm/kb_generator.py: _reconstruct_hierarchy, called at the end of        *)
(* generate with the groups of _semantic_grouping and the dict of the       *)
(* sections the extraction calls returned.                                  *)

MaxRebuildGroups == 2

\* a child as _semantic_grouping builds it (lines 323-329)
RebuildChild(id, title, category) ==
    D([id |-> W(id), title |-> S(title), level |-> N(2),
       category |-> category, section_type |-> None])

\* a group as _semantic_grouping builds it (lines 311-331)
RebuildGroup(id, title, children) ==
    D((IF children = <<>> THEN EmptyDict ELSE ("children" :> L(children)))
      @@ [id |-> W(id), title |-> S(title), level |-> N(1),
          type |-> IF children = <<>> THEN W("standalone") ELSE W("parent"),
          section_type |-> None, category |-> None])

Pricing == W("pricing")

\* the children lists of a group of the grouping reply
ChildLists ==
    { <<>>,
      <<RebuildChild("c", <<"T", "c">>, None)>>,
      <<RebuildChild("c", <<"T", "c">>, Pricing)>>,
      <<RebuildChild("c", <<"T", "c">>, Pricing), RebuildChild("d", <<"T", "d">>, None)>>,
      <<RebuildChild("e", <<"T", "A">>, Pricing)>> }

RebuildGroups ==
    { RebuildGroup(id, title, children) :
        id \in {"a", "b"}, title \in {<<"T", "A">>, <<"T", "B">>}, children \in ChildLists }

GroupLists ==
    UNION { [1..n -> RebuildGroups] : n \in 1..MaxRebuildGroups }

\* a Section as _parse_section builds it from the reply of an extraction call
Extracted(id, title, subsections, data) ==
    Section(W(id), S(title), N(2), W("ok"), W("text"), L(<<W("point")>>), L(<<>>),
            L(subsections), data)

Nested == Extracted("n", <<"N">>, <<>>, None)

\* the sections the extraction calls can have returned, in the order stored
ExtractedPool ==
    << Extracted("a", <<"T", "A">>, <<Nested>>, None),
       Extracted("b", <<"T", "B">>, <<Nested>>, None),
       Extracted("c", <<"T", "c">>, <<>>,
                 D([category |-> W("own"), type |-> W("faq")])),
       Extracted("d", <<"T", "d">>, <<>>, D([type |-> W("faq")])),
       Extracted("z", <<"t", "a">>, <<>>, None),
       Extracted("y", <<"O">>, <<>>, None) >>

\* the sections of the pool at the places of a set, in order
RECURSIVE PoolAt(_, _)
PoolAt(places, from) ==
    IF from > Len(ExtractedPool) THEN <<>>
    ELSE (IF from \in places THEN <<ExtractedPool[from]>> ELSE <<>>)
         \o PoolAt(places, from + 1)

ExtractedDicts ==
    { StoreSections(<<>>, PoolAt(places, 1)) : places \in SUBSET (1..Len(ExtractedPool)) }

rebuildRest == <<flat_sections, metadata_result, llm_group_count, section_batches, batch_i,
                 batch_log, llm_calls, kb, raised_in, jsonVars, filterVars, parseVars,
                 tableVars, classifyVars, cleanVars, callVars, runVars, chunkVars,
                 gateVars, truncateVars>>

\* generate at line 184, after the loop over the batches
InitRebuild ==
    /\ pc = "reconstruct"
    /\ grouped_sections \in GroupLists
    /\ extracted_sections \in ExtractedDicts
    /\ rebuilt_sections = None
    /\ flat_sections = <<>>
    /\ metadata_result = None
    /\ llm_group_count = Len(grouped_sections)
    /\ section_batches = <<>>
    /\ batch_i = 0
    /\ batch_log = <<>>
    /\ llm_calls = <<>>
    /\ kb = None
    /\ raised_in = ""
    /\ JsonIdle
    /\ FilterIdle
    /\ ParseIdle
    /\ TableIdle
    /\ ClassifyIdle
    /\ CleanIdle
    /\ CallIdle
    /\ RunIdle
    /\ ChunkIdle
    /\ GateIdle
    /\ TruncateIdle

ReconstructHierarchy ==
    /\ pc = "reconstruct"
    /\ rebuilt_sections' = _reconstruct_hierarchy(grouped_sections, extracted_sections)
    /\ pc' = "reconstructed"
    /\ UNCHANGED <<grouped_sections, extracted_sections, rebuildRest>>

NextRebuild == ReconstructHierarchy
SpecRebuild == InitRebuild /\ [][NextRebuild]_vars

\* _reconstruct_hierarchy has returned its list
Rebuilt == pc = "reconstructed" /\ ~IsRaise(rebuilt_sections)

\* the children of the i-th group when it is a parent with children
RebuildChildren(i) ==
    LET g == grouped_sections[i].v
    IN  IF Get(g, "type", None) = W("parent") /\ Truthy(Get(g, "children", None))
        THEN g["children"].v
        ELSE <<>>

\* the extracted section a group or child dict resolves to (None: none)
Resolved(d) ==
    LET by_id == DictGet(extracted_sections, Get(d, "id", W("unknown")))
    IN  IF by_id.t = "None" THEN TitleMatch(extracted_sections, d) ELSE by_id

FrameFields == {"id", "title", "level", "summary", "content", "key_points", "images",
                "subsections"}

\* C22: when _reconstruct_hierarchy attaches a group's category to a resolved
\* child, the rebuilt child's data contains every key of the child's previous
\* data with its previous value (a pre-existing 'category' key included), and
\* every other field of the child (id, title, level, summary, content,
\* key_points, images, subsections) is unchanged.
C22_CategoryKeepsData ==
    Rebuilt =>
        \A i \in 1..Len(grouped_sections) : \A j \in 1..Len(RebuildChildren(i)) :
            LET child == RebuildChildren(i)[j].v
                before == Resolved(child)
                after == rebuilt_sections.v[i].subsections.v[j]
            IN  before.t = "Section" /\ Truthy(Get(child, "category", None)) =>
                    /\ \A field \in FrameFields : after[field] = before[field]
                    /\ before.data.t = "dict" =>
                          \A key \in DOMAIN before.data.v :
                              /\ key \in DOMAIN after.data.v
                              /\ after.data.v[key] = before.data.v[key]

\* the sections of the returned tree that carry an id: the top-level ones
\* and the subsections built from the children of the groups
Occurrences(id) ==
    Cardinality({i \in 1..Len(grouped_sections) : rebuilt_sections.v[i].id = id})
    + Sum([i \in 1..Len(grouped_sections) |->
              Cardinality({j \in 1..Len(RebuildChildren(i)) :
                              rebuilt_sections.v[i].subsections.v[j].id = id})])

\* C23: reconciliation neither loses nor duplicates content: every Section
\* stored in extracted_sections appears exactly once in the final tree (as a
\* top-level section or as a subsection), for any grouping and any set of
\* extracted ids and titles, including ids the grouping never mentioned and
\* two groups sharing a title.
C23_NothingLostOrDuplicated ==
    Rebuilt =>
        \A e \in 1..Len(extracted_sections) : Occurrences(extracted_sections[e].k) = 1

\* C30: _reconstruct_hierarchy returns exactly one top-level Section per
\* grouped section, in the order of the grouped list; for a group of type
\* 'parent' with a non-empty children list the returned Section's subsections
\* has exactly one entry per child, in child order, replacing whatever
\* subsections the extraction returned for it; for every other group the
\* resolved Section's subsections are left as extracted.
C30_OneSectionPerGroup ==
    Rebuilt =>
        /\ Len(rebuilt_sections.v) = Len(grouped_sections)
        /\ \A i \in 1..Len(grouped_sections) :
              LET group == grouped_sections[i].v
                  found == Resolved(group)
                  section == rebuilt_sections.v[i]
                  children == RebuildChildren(i)
              IN  /\ section.id = IF found.t = "Section" THEN found.id ELSE group["id"]
                  /\ section.title = IF found.t = "Section" THEN found.title
                                     ELSE group["title"]
                  /\ IF children # <<>>
                     THEN /\ Len(section.subsections.v) = Len(children)
                          /\ \A j \in 1..Len(children) :
                                LET child_found == Resolved(children[j].v)
                                IN  section.subsections.v[j].id =
                                        IF child_found.t = "Section" THEN child_found.id
                                        ELSE children[j].v["id"]
                     ELSE section.subsections =
                              IF found.t = "Section" THEN found.subsections ELSE L(<<>>)

\* C30 case: the first group is a parent of two children whose extracted
\* Section came with a nested subsection of its own, now replaced by the two
\* children; the second group is standalone and keeps its nested subsection.
C30_Witness ==
    /\ Rebuilt
    /\ Len(grouped_sections) = 2
    /\ Len(RebuildChildren(1)) = 2
    /\ Resolved(grouped_sections[1].v).t = "Section"
    /\ Resolved(grouped_sections[1].v).subsections = L(<<Nested>>)
    /\ Len(rebuilt_sections.v[1].subsections.v) = 2
    /\ rebuilt_sections.v[1].subsections.v[1].id = W("c")
    /\ rebuilt_sections.v[1].subsections.v[2].id = W("d")
    /\ RebuildChildren(2) = <<>>
    /\ rebuilt_sections.v[2].subsections = L(<<Nested>>)

-----------------------------------------------------------------------------
(* llm/kb_generator.py: generate, the metadata step and the order of the    *)
(* LLM calls.                                                               *)

\* the metadata call raised, or parse_json_response raised on its reply
MetadataFailed == raised_in = "_extract_metadata_only"

\* C24: a failure of the metadata-extraction step (the LLM call raises or
\* its reply cannot be parsed) is non-fatal: generate still runs grouping,
\* batched extraction, reconstruction and merge, and returns a KnowledgeBase
\* whose product, target audience and value proposition are null.
C24_MetadataFailureNonFatal ==
    MetadataFailed =>
        /\ pc \in {"grouping", "extract", "done"}
        /\ pc = "done" =>
              /\ kb.metadata.product = None
              /\ kb.metadata.target_audience = None
              /\ kb.key_value_proposition = None

\* the calls a run with k extraction calls has issued
CallOrder(k) == <<"metadata", "grouping">> \o [b \in 1..k |-> "extract"]

\* the calls issued so far are the first ones of metadata, grouping, batch 1..k
CallsInOrder ==
    /\ Len(llm_calls) <= 2 + Len(section_batches)
    /\ llm_calls = SubSeq(CallOrder(Len(section_batches)), 1, Len(llm_calls))

\* where generate stands, given the calls that have returned
StagesInOrder ==
    /\ pc = "metadata" => llm_calls = <<>> /\ metadata_result = None
    /\ pc = "grouping" => llm_calls = <<"metadata">> /\ metadata_result # None
    /\ grouped_sections # <<>> => Len(llm_calls) >= 2
    /\ pc = "extract" => Len(llm_calls) = 2 + batch_i /\ grouped_sections # <<>>
    /\ kb # None => pc = "done" /\ llm_calls = CallOrder(Len(section_batches))
    /\ raised_in \in {"_reconstruct_hierarchy", "_merge_into_kb"} =>
          llm_calls = CallOrder(Len(section_batches))

\* a step issues at most one call, after the calls already issued
OneCallAtATime ==
    \/ llm_calls' = llm_calls
    \/ \E call \in {"metadata", "grouping", "extract"} : llm_calls' = Append(llm_calls, call)

\* C25: within one generate run the LLM calls are issued strictly one after
\* another in the order metadata, grouping, extraction batch 1..k: the
\* grouping call starts only after the metadata call has returned, no
\* extraction call starts before grouping has returned, each call starts only
\* after the previous one has ended, and reconstruction and merge start only
\* after the last batch has ended.
C25_CallsSequential == [](CallsInOrder /\ StagesInOrder) /\ [][OneCallAtATime]_vars

\* C25 case: generate returned after the metadata call, the grouping call
\* and the calls of two batches.
C25_Witness ==
    /\ pc = "done"
    /\ kb # None
    /\ llm_calls = <<"metadata", "grouping", "extract", "extract">>

-----------------------------------------------------------------------------
(* llm/client.py: ClaudeClient._wait_for_rate_limit and the calls made      *)
(* through one client, with the time at which each request is sent.  Times  *)
(* are whole seconds.                                                       *)

MaxClientCalls == 3
MaxGateRetries == 2
MaxRequestTime == 1
MaxIdleTime == 3

\* config.py
API_DELAY_SECONDS == 2
RETRY_DELAY_SECONDS == 60

\* time.time() when the client is built
Epoch == 1000

\* the time at which _wait_for_rate_limit returns when it is called at time t
_wait_for_rate_limit(t, last) ==
    LET elapsed == t - last
    IN  IF elapsed < API_DELAY_SECONDS THEN t + (API_DELAY_SECONDS - elapsed) ELSE t

\* what one request of the retry loop can end in
GateOutcomes == {"text", "RateLimitError", "APIError"}

gateRest == <<genRest, jsonVars, filterVars, parseVars, tableVars, classifyVars, cleanVars,
              call_kind, api_log, call_result, runVars, chunkVars, rebuildVars,
              truncateVars>>

InitGate ==
    /\ pc = "between_calls"
    /\ clock = Epoch
    /\ last_call_time = 0
    /\ first_request = None
    /\ client_calls = <<>>
    /\ max_retries \in 1..MaxGateRetries
    /\ attempt = 0
    /\ call_kind = ""
    /\ api_log = <<>>
    /\ call_result = None
    /\ GenIdle
    /\ JsonIdle
    /\ FilterIdle
    /\ ParseIdle
    /\ TableIdle
    /\ ClassifyIdle
    /\ CleanIdle
    /\ RunIdle
    /\ ChunkIdle
    /\ RebuildIdle
    /\ TruncateIdle

\* the caller comes back after some time and call_text_only / call_with_images
\* begins: self._wait_for_rate_limit()
CallBegins ==
    /\ pc = "between_calls"
    /\ Len(client_calls) < MaxClientCalls
    /\ \E idle \in 0..MaxIdleTime :
          clock' = _wait_for_rate_limit(clock + idle, last_call_time)
    /\ attempt' = 0
    /\ first_request' = None
    /\ pc' = "requesting"
    /\ UNCHANGED <<last_call_time, client_calls, max_retries, gateRest>>

\* the record of a call that ends at a time
EndedCall(first, ended, raised) == [first_request |-> first, ended |-> ended, raised |-> raised]

\* one pass of the retry loop: the request is sent now and answered after
\* some time; the call returns, raises, or sleeps and goes on
GateRequest ==
    /\ pc = "requesting"
    /\ attempt < max_retries
    /\ \E outcome \in GateOutcomes, took \in 0..MaxRequestTime :
          LET first == IF attempt = 0 THEN clock ELSE first_request
              answered == clock + took
          IN  CASE outcome = "text" ->
                    /\ last_call_time' = answered
                    /\ clock' = answered
                    /\ client_calls' = Append(client_calls, EndedCall(first, answered, FALSE))
                    /\ first_request' = None
                    /\ pc' = "between_calls"
                    /\ UNCHANGED attempt
                [] outcome = "RateLimitError" ->
                    /\ clock' = answered + RETRY_DELAY_SECONDS
                    /\ UNCHANGED last_call_time
                    /\ IF attempt + 1 < max_retries
                       THEN /\ attempt' = attempt + 1
                            /\ first_request' = first
                            /\ UNCHANGED <<pc, client_calls>>
                       ELSE \* the loop is over: raise Exception("Failed after ...")
                            /\ client_calls' =
                                  Append(client_calls,
                                         EndedCall(first, answered + RETRY_DELAY_SECONDS, TRUE))
                            /\ first_request' = None
                            /\ pc' = "between_calls"
                            /\ UNCHANGED attempt
                [] outcome = "APIError" ->
                    /\ UNCHANGED last_call_time
                    /\ IF attempt < max_retries - 1
                       THEN /\ clock' = answered + RETRY_DELAY_SECONDS
                            /\ attempt' = attempt + 1
                            /\ first_request' = first
                            /\ UNCHANGED <<pc, client_calls>>
                       ELSE \* raise
                            /\ clock' = answered
                            /\ client_calls' = Append(client_calls, EndedCall(first, answered, TRUE))
                            /\ first_request' = None
                            /\ pc' = "between_calls"
                            /\ UNCHANGED attempt
    /\ UNCHANGED <<max_retries, gateRest>>

NextGate == CallBegins \/ GateRequest
SpecGate == InitGate /\ [][NextGate]_vars

\* C26: the client enforces the minimum inter-call delay before every call:
\* no call_text_only / call_with_images invocation sends its first request
\* less than api_delay after the previous call made through the same client,
\* whether that previous call succeeded or ended in a raised failure.
C26_DelayBeforeEveryCall ==
    \A k \in 2..Len(client_calls) :
        client_calls[k].first_request - client_calls[k - 1].ended >= API_DELAY_SECONDS

\* ======================================================================
\* ClaudeClient._truncate_to_valid_json on cut-off responses
\* (src/llm/client.py 370-429)
\* ======================================================================

\* an object holding a list of objects: {"a": [{"b": 1}, {"c": 2}]}
DocListOfObjects ==
    <<"{", "\"", "a", "\"", ":", " ", "[", "{", "\"", "b", "\"", ":", " ", "1", "}",
      ",", " ", "{", "\"", "c", "\"", ":", " ", "2", "}", "]", "}">>

\* the texts the method is given: every document cut off at every length
TruncateInputs == UNION {Cuts(d) : d \in Docs \cup {DocListOfObjects}}

truncateRest ==
    <<genRest, jsonVars, filterVars, parseVars, tableVars, classifyVars, cleanVars,
      callVars, runVars, chunkVars, rebuildVars, gateVars>>

InitTruncate ==
    /\ pc = "truncate"
    /\ truncate_in \in {S(s) : s \in TruncateInputs}
    /\ truncate_out = None
    /\ GenIdle
    /\ JsonIdle
    /\ FilterIdle
    /\ ParseIdle
    /\ TableIdle
    /\ ClassifyIdle
    /\ CleanIdle
    /\ CallIdle
    /\ RunIdle
    /\ ChunkIdle
    /\ RebuildIdle
    /\ GateIdle

\* one call of the method
TruncateToValidJson ==
    /\ pc = "truncate"
    /\ truncate_out' = _truncate_to_valid_json(truncate_in.v)
    /\ pc' = "truncated"
    /\ UNCHANGED <<truncate_in, truncateRest>>

NextTruncate == TruncateToValidJson

SpecTruncate == InitTruncate /\ [][NextTruncate]_vars

\* the openers still open at the end of s, innermost last, read with a stack
\* outside string literals; <<"!">> when a closer does not match the innermost
\* opener
RECURSIVE OpenAfter(_, _, _, _)
OpenAfter(s, i, stack, in_string) ==
    IF i > Len(s) THEN stack
    ELSE IF in_string
    THEN IF s[i] = "\\" THEN OpenAfter(s, i + 2, stack, TRUE)
         ELSE OpenAfter(s, i + 1, stack, s[i] # "\"")
    ELSE IF s[i] = "\"" THEN OpenAfter(s, i + 1, stack, TRUE)
    ELSE IF s[i] \in {"{", "["} THEN OpenAfter(s, i + 1, Append(stack, s[i]), FALSE)
    ELSE IF s[i] \in {"}", "]"}
    THEN IF /\ stack # <<>>
            /\ stack[Len(stack)] = (IF s[i] = "}" THEN "{" ELSE "[")
         THEN OpenAfter(s, i + 1, SubSeq(stack, 1, Len(stack) - 1), FALSE)
         ELSE <<"!">>
    ELSE OpenAfter(s, i + 1, stack, FALSE)

ProperlyNested(s) == OpenAfter(s, 1, <<>>, FALSE) = <<>>

\* C27: whenever _truncate_to_valid_json returns a string, the braces and
\* brackets of that string outside string literals are balanced and properly
\* nested.
C27_TruncatedIsBalanced ==
    (pc = "truncated" /\ truncate_out # None) => ProperlyNested(truncate_out.v)

\* ======================================================================
\* ImageFilter._should_skip, the icon-path check (image_filter.py 188-197)
\* ======================================================================

\* the image meets none of the first eight checks, nor the SVG test of
\* lines 128-129
PassesFirstEight(img) ==
    /\ \A m \in 1..(Len(CheckOrder) - 1) : ~Meets(CheckOrder[m], img)
    /\ ~EndsWith(StrLower(Get(img, "src", S(<<>>)).v), DotSvg)

\* the local path holds one of the icon-path markers
IconMarked(img) ==
    \E i \in 1..Len(icon_patterns) :
        Contains(StrLower(LocalPath(img).v), icon_patterns[i])

BothAbove(img) ==
    /\ OrZero(Get(img, "width", None)) > IconMaxSide
    /\ OrZero(Get(img, "height", None)) > IconMaxSide

SkippedAs(index, reason) ==
    \E j \in 1..Len(skipped) :
        /\ skipped[j].index = N(index)
        /\ skipped[j].skip_reason = W(reason)

\* C28: an image that passes checks 1-8 and whose local path contains an
\* icon-path marker is skipped with reason 'icon_path' unless both its width
\* and its height exceed 100 px; an image with only one dimension above 100 px
\* is skipped.
C28_IconPathUnlessBothLarge ==
    Filtered =>
        \A k \in 1..Len(images) :
            LET img == images[k].v
            IN  (PassesFirstEight(img) /\ IconMarked(img)) =>
                    (SkippedAs(k - 1, "icon_path") <=> ~BothAbove(img))

\* ======================================================================
\* ImageClassifier.classify_batch: which image a classification is given to
\* (image_classifier.py 104-142)
\* ======================================================================

\* the images of the batch whose img_NNN id is the returned id
EqualTo(image_id, batch) ==
    {i \in 1..Len(batch) : image_id = S(ImageId(batch[i].index.v))}

\* the images of the batch whose decimal index is written in the returned id
IndexIn(image_id, batch) ==
    {i \in 1..Len(batch) :
        image_id.t = "str" /\ Contains(image_id.v, Decimal(batch[i].index.v))}

\* the images a classification of pass b may be given to
Targets(b, i) ==
    LET image_id == Get(Reply(b)[i].v, "image_id", S(<<>>))
        batch == classify_log[b].batch
    IN  IF EqualTo(image_id, batch) # {} THEN EqualTo(image_id, batch)
        ELSE IndexIn(image_id, batch)

\* the passes that returned on a reply holding a list of classifications
Replied == {b \in Returned : "images" \in DOMAIN classify_log[b].outcome.v}

Included(b, i) == Truthy(IncludeFlag(Reply(b)[i].v))

\* the place of the entry of classification i in its list (included or
\* excluded): one entry per earlier classification of the same list
PlaceInList(b, i) ==
    Cardinality({j \in 1..i : Targets(b, j) # {} /\ Included(b, j) = Included(b, i)})

EntryList(b, i) ==
    IF Included(b, i) THEN classify_log[b].got.included ELSE classify_log[b].got.excluded

CarriesImage(entry, batch, places) ==
    \E t \in places :
        /\ entry.image_id = S(ImageId(batch[t].index.v))
        /\ entry.local_path = batch[t].local_path

\* C29: in classify_batch a returned classification makes its entry for the
\* batch image whose img_NNN id equals the returned image_id; if none is
\* equal, for an image of the batch whose decimal index is a substring of
\* the returned id; if there is none either, it makes no entry in included
\* or excluded. Every entry carries the id and the local path of an image
\* of the batch.
C29_AttributedToBatchImage ==
    \A b \in Replied :
        LET got == classify_log[b].got
            batch == classify_log[b].batch
        IN  /\ Len(got.included) + Len(got.excluded)
                  = Cardinality({i \in 1..Len(Reply(b)) : Targets(b, i) # {}})
            /\ \A i \in 1..Len(Reply(b)) :
                  Targets(b, i) # {} =>
                      /\ PlaceInList(b, i) <= Len(EntryList(b, i))
                      /\ CarriesImage(EntryList(b, i)[PlaceInList(b, i)], batch, Targets(b, i))
            /\ \A k \in 1..Len(got.included) :
                  CarriesImage(got.included[k], batch, 1..Len(batch))
            /\ \A k \in 1..Len(got.excluded) :
                  CarriesImage(got.excluded[k], batch, 1..Len(batch))

\* C29 case: classify_all returned after two batches; the reply of the
\* first held a classification whose id equals no image id but holds an
\* index of the batch, then one with the id of an image, and made two
\* entries; the reply of the second held one classification that matches no
\* image of the batch and made no entry.
C29_Witness ==
    /\ pc = "classified"
    /\ Replied = {1, 2}
    /\ Len(Reply(1)) = 2
    /\ EqualTo(Reply(1)[1].v.image_id, classify_log[1].batch) = {}
    /\ IndexIn(Reply(1)[1].v.image_id, classify_log[1].batch) # {}
    /\ EqualTo(Reply(1)[2].v.image_id, classify_log[1].batch) # {}
    /\ Len(classify_log[1].got.included) + Len(classify_log[1].got.excluded) = 2
    /\ Len(Reply(2)) = 1
    /\ Targets(2, 1) = {}
    /\ classify_log[2].got.included = <<>>
    /\ classify_log[2].got.excluded = <<>>

=============================================================================
